---- MODULE Spec2Model ----
(***************************************************************************)
(* Model of the bug-mining pipeline: the batch orchestrator                *)
(* (framework/fast_bug_miner.py), the transport helpers it calls           *)
(* (framework/utils.py) and the model-assisted matcher                     *)
(* (framework/llm_xref.py).                                                *)
(*                                                                         *)
(* Three specifications share the variables:                               *)
(*   Spec        the orchestrator's batch loop over a file system, with    *)
(*               the matcher run as one subprocess step;                   *)
(*   SpecXref    llm_xref.main step by step (scan, worker pool, write);    *)
(*   SpecMatcher get_fixed_bug_ids applied to enumerated model responses.  *)
(***************************************************************************)
EXTENDS Integers, Sequences, FiniteSets, TLC

\* ------------------------------------------------------------------ bounds

\* Data rows a ledger may hold: a run of llm_xref.py by hand that would make it
\* longer is not taken.
MaxRows == 2
\* Invocations of llm_xref.main in SpecXref.
MaxXrefRuns == 2
\* Longest model answer list enumerated.
MaxAnswer == 2
\* Most tasks Pass 1 hands to the worker pool in SpecPool.
MaxPoolTasks == 7
\* Calls of exec_cmd made one after the other in SpecExec.
MaxExecCalls == 3
\* CROSS_REFERENCE stages one behaviour of SpecDispatch goes through.
MaxDispatch == 2

\* ------------------------------------------------------- strings as cells

\* A CSV cell that may hold a number is a sequence of characters; the
\* characters 0..9 are the digits, larger codes are letters.
IsDigit(ch) == ch \in 0..9

RECURSIVE StrOfNat(_)
\* str(n) as csv.writer writes an int cell.
StrOfNat(n) == IF n < 10 THEN <<n>> ELSE Append(StrOfNat(n \div 10), n % 10)

RECURSIVE DigitsValue(_)
DigitsValue(s) ==
    IF Len(s) = 0 THEN 0
    ELSE 10 * DigitsValue(SubSeq(s, 1, Len(s) - 1)) + s[Len(s)]

\* int(s): -1 stands for ValueError (empty cell or a non-digit character).
IntOfStr(s) ==
    IF Len(s) = 0 \/ \E i \in 1..Len(s) : ~IsDigit(s[i]) THEN -1
    ELSE DigitsValue(s)

\* The first header cell, "bug.id" (letters, no digit).
BUG_ID == <<11, 30, 16, 18, 13>>

\* ------------------------------------------------------------- the ledger

\* config.ACTIVE_BUGS_HEADER / the fallback header, as one line of the file.
HEADER ==
    [vid |-> BUG_ID, project_id |-> "project_id", buggy |-> "revision.id.buggy",
     fixed |-> "revision.id.fixed", issue_id |-> "report.id",
     issue_url |-> "report.url"]

\* A file: whether it exists and its lines.
NoFile == [exists |-> FALSE, lines |-> <<>>]
FileOf(ls) == [exists |-> TRUE, lines |-> ls]

\* os.path.getsize(f) < 10: the header and every data row are longer than
\* ten bytes, so only a file without lines is that small.
SizeBelow10(f) == Len(f.lines) = 0

\* The issue index: id -> url.
IssueIds == {"1", "2"}
UrlOf(id) == IF id = "1" THEN "https://github.com/o/r/issues/1"
             ELSE IF id = "2" THEN "https://github.com/o/r/issues/2"
             ELSE "NA"

\* ---------------------------------------------------- get_fixed_bug_ids

\* A list item of the model's answer: a JSON string or another JSON value.
Item(isStr, v) == [isStr |-> isStr, v |-> v]
Items == {Item(TRUE, "1"), Item(TRUE, "2"), Item(TRUE, "999"), Item(FALSE, "1")}

RECURSIVE SeqsUpTo(_, _)
SeqsUpTo(S, n) ==
    IF n = 0 THEN {<<>>}
    ELSE LET shorter == SeqsUpTo(S, n - 1)
         IN  shorter \cup {Append(s, x) : s \in {t \in shorter : Len(t) = n - 1}, x \in S}

ItemLists == SeqsUpTo(Items, MaxAnswer)

\* One key of a JSON object: its name, whether its value is a list, the list.
Pair(k, isList, items) == [key |-> k, isList |-> isList, items |-> items]

\* A model response after json.loads: kind is "error" (the call raised),
\* "badjson" (JSONDecodeError), "list", "dict" or "other" (a scalar).
Response(kind, items, pairs) == [kind |-> kind, items |-> items, pairs |-> pairs]

target_keys == <<"fixed_ids", "fix_ids", "fixed", "fix">>

\* The keys of a dict response in insertion order.
HasListAt(pairs, k) == \E i \in 1..Len(pairs) : pairs[i].key = k /\ pairs[i].isList
ListAt(pairs, k) == pairs[CHOOSE i \in 1..Len(pairs) : pairs[i].key = k /\ pairs[i].isList].items

\* A mutant: the answer is returned without the validation against relevant.
RECURSIVE unvalidated_list(_, _)
unvalidated_list(fixed_ids_list, relevant) ==
    IF Len(fixed_ids_list) = 0 THEN <<>>
    ELSE <<Head(fixed_ids_list).v>> \o unvalidated_list(Tail(fixed_ids_list), relevant)

\* The validation at the end of get_fixed_bug_ids.
RECURSIVE validated_list(_, _)
validated_list(fixed_ids_list, relevant) ==
    IF Len(fixed_ids_list) = 0 THEN <<>>
    ELSE LET item == Head(fixed_ids_list)
             rest == validated_list(Tail(fixed_ids_list), relevant)
         IN  IF item.isStr /\ item.v \in relevant THEN <<item.v>> \o rest ELSE rest

\* The branch of get_fixed_bug_ids for a dict response.  fixed_ids_list is
\* unbound until a target key with a list value is found; reading it unbound
\* raises, which the function's own handler turns into [].
DictFixedIds(pairs, relevant) ==
    LET hits == {j \in 1..Len(target_keys) : HasListAt(pairs, target_keys[j])}
    IN  IF hits = {} THEN <<>>
        ELSE LET j == CHOOSE x \in hits : \A y \in hits : x <= y
                 first == ListAt(pairs, target_keys[j])
                 lists == {i \in 1..Len(pairs) : pairs[i].isList}
                 any == pairs[CHOOSE x \in lists : \A y \in lists : x <= y].items
             IN  validated_list(IF Len(first) = 0 THEN any ELSE first, relevant)

\* A mutant: a failed call or an unusable answer counts as a fix of one of
\* the relevant ids.
get_fixed_bug_ids_fail_open(resp, relevant, hasClient) ==
    IF ~hasClient THEN <<>>
    ELSE IF resp.kind \in {"error", "badjson", "other"}
    THEN (IF relevant = {} THEN <<>> ELSE <<CHOOSE x \in relevant : TRUE>>)
    ELSE IF resp.kind = "list" THEN validated_list(resp.items, relevant)
    ELSE DictFixedIds(resp.pairs, relevant)

\* get_fixed_bug_ids(commit_message, relevant_bug_ids_list) given what the
\* model call produced; hasClient is whether the API client was created.
get_fixed_bug_ids(resp, relevant, hasClient) ==
    IF ~hasClient THEN <<>>
    ELSE IF resp.kind \in {"error", "badjson", "other"} THEN <<>>
    ELSE IF resp.kind = "list" THEN validated_list(resp.items, relevant)
    ELSE DictFixedIds(resp.pairs, relevant)

\* --------------------------------------------------------- get_git_parent

\* The output of git rev-list --parents -n 1: the commit and its parents, or
\* a non-zero exit (ok = FALSE).
GitOut(ok, parts) == [ok |-> ok, parts |-> parts]
None == "None"

\* A mutant: a merge commit yields its first parent.
get_git_parent_merge(out) ==
    IF out.ok /\ Len(out.parts) > 1 THEN out.parts[2] ELSE None

get_git_parent(out) ==
    IF ~out.ok THEN None
    ELSE IF Len(out.parts) > 1
         THEN IF Len(out.parts) > 2 THEN None ELSE out.parts[2]
         ELSE None

\* ------------------------------------------------------- llm_xref.main

\* The issue index file of a tracker key, by what it holds.
IndexStates == {"absent", "empty", "partial", "complete"}
IndexKeys(st) == IF st = "complete" THEN IssueIds
                 ELSE IF st = "partial" THEN {"1"} ELSE {}

\* The commit log snapshot: commits oldest first, each with the numbers its
\* message mentions as #<number> (LINKING_REGEX).
Commit(c, mentioned) == [c |-> c, mentioned |-> mentioned]
\* Project A's history has one commit that mentions two known issues and one
\* that mentions none; project B's history mentions no known issue; the
\* project llm_xref.py is run on by itself has two commits that mention known
\* issues.
GitLogOf(project_id) ==
    IF project_id = "A" THEN <<Commit("c1", {"1", "2"}), Commit("c2", {"7"})>>
    ELSE IF project_id = "B" THEN <<Commit("c3", {"7"})>>
    ELSE <<Commit("c1", {"1", "2"}), Commit("c2", {"7"}), Commit("c3", {"2"})>>

\* gitlog.txt as Pass 1 reads it: a snapshot cut short while git log was
\* writing it holds none of the commits that mention an issue.
LogFile(project_id, logState) ==
    IF logState = "partial" THEN <<>> ELSE GitLogOf(project_id)

\* A mutant: Pass 1 keeps every commit of the log.
RECURSIVE tasks_unfiltered(_, _)
tasks_unfiltered(log, known) ==
    IF Len(log) = 0 THEN <<>>
    ELSE <<[c |-> Head(log).c, relevant |-> Head(log).mentioned \cap known]>>
         \o tasks_unfiltered(Tail(log), known)

\* Pass 1: the commits whose mentioned ids meet the known ids, in log order,
\* each with its relevant ids.
RECURSIVE tasks_to_process(_, _)
tasks_to_process(log, known) ==
    IF Len(log) = 0 THEN <<>>
    ELSE LET relevant == Head(log).mentioned \cap known
             rest == tasks_to_process(Tail(log), known)
         IN  IF relevant # {} THEN <<[c |-> Head(log).c, relevant |-> relevant]>> \o rest
             ELSE rest

\* Pass 2, one completed future: the rows added to results_to_write for a
\* commit with the given adjudication and parent.
\* A mutant: the rows carry no issue URL.
RECURSIVE ResultRowsNA(_, _, _)
ResultRowsNA(commit_hash, parent, fixed_ids) ==
    IF Len(fixed_ids) = 0 THEN <<>>
    ELSE <<[p |-> parent, c |-> commit_hash, issue_id |-> Head(fixed_ids),
            issue_url |-> "NA"]>>
         \o ResultRowsNA(commit_hash, parent, Tail(fixed_ids))

RECURSIVE ResultRows(_, _, _)
ResultRows(commit_hash, parent, fixed_ids) ==
    IF Len(fixed_ids) = 0 THEN <<>>
    ELSE <<[p |-> parent, c |-> commit_hash, issue_id |-> Head(fixed_ids),
            issue_url |-> UrlOf(Head(fixed_ids))]>>
         \o ResultRows(commit_hash, parent, Tail(fixed_ids))

\* A mutant: a commit's first row goes in front of the results collected so
\* far and its other rows behind them.
CollectResultSplit(results, commit_hash, fixed_ids, gitout) ==
    IF Len(fixed_ids) = 0 \/ get_git_parent(gitout) = None THEN results
    ELSE LET rows == ResultRows(commit_hash, get_git_parent(gitout), fixed_ids)
         IN  <<Head(rows)>> \o results \o Tail(rows)

CollectResult(results, commit_hash, fixed_ids, gitout) ==
    IF Len(fixed_ids) = 0 THEN results
    ELSE LET parent == get_git_parent(gitout)
         IN  IF parent # None THEN results \o ResultRows(commit_hash, parent, fixed_ids)
             ELSE results

\* Pass 3: the vid the first appended row gets.
\* A mutant: numbering restarts at 1 on every run.
VidStartAlways1(f) == 1

\* A mutant: the last row's vid is taken as it is, without the + 1.
VidStartFromLast(f) ==
    IF Len(f.lines) <= 1 THEN 1
    ELSE IntOfStr(f.lines[Len(f.lines)].vid)

VidStart(f) ==
    IF ~f.exists \/ SizeBelow10(f) THEN 1
    ELSE LET data == Tail(f.lines)
         IN  IF Len(data) = 0 THEN 1
             ELSE LET n == IntOfStr(data[Len(data)].vid)
                  IN  IF n < 0 THEN 1 ELSE n + 1

RECURSIVE LedgerRows(_, _, _)
LedgerRows(results, vid, project_id) ==
    IF Len(results) = 0 THEN <<>>
    ELSE <<[vid |-> StrOfNat(vid), project_id |-> project_id, buggy |-> Head(results).p,
            fixed |-> Head(results).c, issue_id |-> Head(results).issue_id,
            issue_url |-> Head(results).issue_url]>>
         \o LedgerRows(Tail(results), vid + 1, project_id)

\* A mutant: the file is opened for writing, not for appending.
WriteCSVTruncate(f, results, project_id) ==
    FileOf(<<HEADER>> \o LedgerRows(results, 1, project_id))

\* A mutant: the header row is written on every append.
WriteCSVHeaderAlways(f, results, project_id) ==
    FileOf(f.lines \o <<HEADER>> \o LedgerRows(results, VidStart(f), project_id))

\* Pass 3: the ledger file after the append.
WriteCSV(f, results, project_id) ==
    LET file_is_empty == ~f.exists \/ SizeBelow10(f)
        kept == IF file_is_empty THEN f.lines \o <<HEADER>> ELSE f.lines
    IN  FileOf(kept \o LedgerRows(results, VidStart(f), project_id))

\* The parent hashes git reports: ParentOf(c) first, "q" as a second parent.
ParentOf(c) == IF c = "c1" THEN "p1" ELSE IF c = "c2" THEN "p2" ELSE "p3"

\* Pass 2 as a whole: the futures complete in the order given (indices into
\* tasks); answers[i] and gitouts[i] are what task i's model call and parent
\* lookup produce.
RECURSIVE Pass2(_, _, _, _, _)
Pass2(tasks, order, answers, gitouts, hasClient) ==
    IF Len(order) = 0 THEN <<>>
    ELSE LET i == order[Len(order)]
             before == Pass2(tasks, SubSeq(order, 1, Len(order) - 1), answers, gitouts, hasClient)
         IN  CollectResult(before, tasks[i].c,
                           get_fixed_bug_ids(answers[i], tasks[i].relevant, hasClient),
                           gitouts[i])

\* The orders in which n futures can complete.
Orders(n) == {o \in [1..n -> 1..n] : \A i, j \in 1..n : i # j => o[i] # o[j]}

\* The answers the orchestrator's runs draw from.
FixedIdsAnswer(items) == Response("dict", <<>>, <<Pair("fixed_ids", TRUE, items)>>)
RunAnswers ==
    {FixedIdsAnswer(<<>>), FixedIdsAnswer(<<Item(TRUE, "1")>>),
     Response("list", <<Item(TRUE, "2"), Item(TRUE, "1")>>, <<>>),
     Response("badjson", <<>>, <<>>)}
RunGitOuts(c) == {GitOut(TRUE, <<c, ParentOf(c)>>), GitOut(TRUE, <<c, ParentOf(c), "q">>)}

\* Every results_to_write a run of the matcher can end Pass 2 with.
XrefResults(tasks, hasClient) ==
    LET n == Len(tasks)
    IN  {Pass2(tasks, o, a, g, hasClient) :
            o \in Orders(n), a \in [1..n -> RunAnswers],
            g \in {h \in [1..n -> UNION {RunGitOuts(tasks[i].c) : i \in 1..n}] :
                     \A i \in 1..n : h[i] \in RunGitOuts(tasks[i].c)}}

\* llm_xref.main as one subprocess: its exit code and the ledger it leaves.
\* env: hasClient, the Pass 2 results, and whether the log read, a parent
\* lookup (timeout) or the ledger write raised.
XrefExit(f, indexState, logState, project_id, env) ==
    LET known == IndexKeys(indexState)
        tasks == tasks_to_process(LogFile(project_id, logState), known)
    IN  IF known = {} THEN [code |-> 1, file |-> f]
        ELSE IF logState = "absent" THEN [code |-> 1, file |-> f]
        ELSE IF Len(tasks) = 0 \/ ~env.hasClient THEN [code |-> 0, file |-> f]
        ELSE IF env.raised THEN [code |-> 1, file |-> f]
        ELSE [code |-> 0, file |-> WriteCSV(f, env.results, project_id)]

\* ------------------------------------------------ the orchestrator: state

\* The input batch (example_github.txt): project ids in file order.  Both
\* projects report to the same tracker project, so they share one issue index.
Batch == <<"A", "B">>
Projects == {Batch[i] : i \in 1..Len(Batch)}
KeyOf(project_id) == "github_o/r"
Keys == {KeyOf(x) : x \in Projects}

StageOrder == <<"CLONE_REPO", "FETCH_ISSUE_INDEX", "COLLECT_LOG", "CROSS_REFERENCE",
                "MATERIALIZE_ARTIFACTS">>

VARIABLES
    line,       \* index in Batch of the line main's loop is at
    pc,         \* where the orchestrator is: "next", a stage of StageOrder,
                \* "returned", "done" (all projects processed), "aborted" (exit 1),
                \* "killed" (the process was killed)
    success,    \* process_project's return value, read at pc = "returned" (TRUE
                \* once main has read it, and in a new process)
    row,        \* MATERIALIZE_ARTIFACTS: 0 before the header is read, then the
                \* index of the data row the loop is at
    mirror,     \* cache/<project>/<name>.git: "absent", "partial", "complete"
    index,      \* shared_issues/<key>/issues.txt: one of IndexStates
    gitlog,     \* cache/<project>/gitlog.txt: "absent", "partial", "complete"
    outdir,     \* whether output/<project> exists
    ledger,     \* output/<project>/active-bugs.csv
    reports,    \* output/<project>/reports/<bug_id>.json that exist
    timelines,  \* output/<project>/reports/<bug_id>.timeline.json that exist
    patches,    \* output/<project>/patches/<bug_id>.src.patch that exist
    trail,      \* history: the stages of the current process_project call, each
                \* with what happened ("skipped", "ran", "failed")
    calls,      \* history: the external calls of the current process_project call
                \* ("no_api_key": the matcher was run without SILICONCLOUD_API_KEY)
    entry,      \* history: the project's files when process_project was entered
    torn,       \* history: the files a killed run left unfinished, <<kind, owner>>
                \* ("noledger": killed in CROSS_REFERENCE before the ledger existed)
    result,     \* history: per project, how its processing ended in this run
    \* llm_xref.main on its own (SpecXref)
    xpc,        \* "off", "idle", "pass2" (collecting futures), "exited"
    xruns,      \* how many times main has been started
    xcode,      \* the exit code of the last run
    xfile,      \* the ledger file given with -f
    xrepo,      \* the repository: commit -> the commit and its parents
    xknown,     \* known_bugs_map's keys
    xtasks,     \* tasks_to_process
    xdone,      \* per task: whether its future has been collected, the model's
                \* answer, the fixed ids returned for it and git's parent listing
    results_to_write,
    \* get_fixed_bug_ids on its own (SpecMatcher)
    mpc,        \* "off", "called", "returned"
    mresp,      \* what the model call produced
    mrelevant,  \* relevant_bug_ids_list
    mclient,    \* whether the API client exists
    mout,       \* the list returned
    \* utils.download_report_data on its own (SpecDownload)
    dpc,        \* "off", "remap", "attempt", "sleep", "write", "handler" (the
                \* outer except clause), "returned"
    attempt,    \* the loop variable of the retry loop
    retry_delay,
    tried,      \* history: how each session.get so far ended
    slept,      \* history: the seconds of each time.sleep so far
    save_to,    \* the target file: "absent", "old" (there before the call),
                \* "partial", "full" (the whole response text)
    dret,       \* "none", "True", "False", "raised" (an exception left the call)
    \* Pass 2 of llm_xref.main with its worker pool (SpecPool)
    ppc,        \* "off", "pass2", "write" (Pass 3 has begun), "exited"
    pool,       \* per task: "unsubmitted", "queued", "running" (its call is in
                \* flight), "finished" (its future holds a result)
    pcollected, \* history: per task, how many times its result was collected
    \* utils.exec_cmd on its own (SpecExec)
    epc,        \* "off", "open", "run", "returned"
    ehas,       \* whether output_file was given
    efile,      \* the output file: "absent", "empty" (opened for writing),
                \* "partial", "full" (the whole output of the command)
    eruns,      \* history: how many times this call has started the command
    elog,       \* history: the calls so far, each with how the command ended,
                \* what exec_cmd returned and what it left of the output file
    \* stage 3d of process_project on its own (SpecDispatch)
    cpc,        \* "off", "stage" (at line 121), "returned"
    cpid,       \* project_id
    ctracker,   \* issue_tracker_name
    cregex,     \* bug_fix_regex
    cexists,    \* whether output_csv_file exists
    ccmds,      \* history: the command lists this stage gave to exec_cmd
    clog,       \* history: the stages so far, each with its inputs, its
                \* commands and what it came to
    \* steps 4a and 4a.1 of process_project for one ledger row (SpecRow)
    tpc,        \* "off", "report" (at 4a), "timeline" (at 4a.1), "done"
    turl,       \* report_url of the row
    tbase,      \* tracker_base_url
    treport,    \* the report file of the row: "absent" or what it holds
    ttimeline,  \* whether the timeline file of the row exists
    tcalls,     \* history: the downloads made for the row
    \* the request of utils.download_report_data (SpecDownload)
    duri,       \* uri
    dbase,      \* tracker_base_url
    dtoken,     \* os.environ.get('GH_TOKEN')
    dapi,       \* api_uri
    dheaders,   \* the names of the headers in `headers`
    dsent,      \* history: the host and the headers of each session.get
    \* the GitHub enumeration of download_issues.py (SpecList)
    gpc,        \* "off", "clear" (at line 342), "label" (at the for loop),
                \* "request" (at session.post), "retry" (in time.sleep(5)),
                \* "exited"
    labels_to_search,
    label_ix,   \* index in labels_to_search of the label the for loop is at
    page_count, \* page_count of the label's while loop
    issues_file,    \* issues.txt: "stale" (as found), or the pages appended
    exit_code   \* the status of sys.exit, -1 while running

xrefVars == <<xpc, xruns, xcode, xfile, xrepo, xknown, xtasks, xdone, results_to_write>>
matcherVars == <<mpc, mresp, mrelevant, mclient, mout>>
dlVars == <<dpc, attempt, retry_delay, tried, slept, save_to, dret>>
poolVars == <<ppc, pool, pcollected>>
execVars == <<epc, ehas, efile, eruns, elog>>
\* CROSS_REFERENCE of process_project on its own (SpecDispatch)
dispVars == <<cpc, cpid, ctracker, cregex, cexists, ccmds, clog>>
rowVars == <<tpc, turl, tbase, treport, ttimeline, tcalls>>
authVars == <<duri, dbase, dtoken, dapi, dheaders, dsent>>
listVars == <<gpc, labels_to_search, label_ix, page_count, issues_file, exit_code>>
ys == <<dispVars, rowVars, authVars, listVars>>
\* The groups of the specifications above.
zs == <<xrefVars, matcherVars, dlVars, authVars, poolVars, execVars, listVars>>
xs == <<xrefVars, matcherVars, dlVars, poolVars, execVars, ys>>

vars == <<line, pc, success, row, mirror, index, gitlog, outdir, ledger, reports,
          timelines, patches, trail, calls, entry, torn, result, xs>>

orchVars == <<line, pc, success, row, mirror, index, gitlog, outdir, ledger, reports,
              timelines, patches, trail, calls, entry, torn, result>>
fsVars == <<mirror, index, gitlog, outdir, ledger, reports, timelines, patches>>

cur == Batch[line]

DataRows(f) == IF Len(f.lines) = 0 THEN <<>> ELSE Tail(f.lines)

\* The report a download stores for an issue: the code-hosting API's issue
\* object names its discussion timeline; "plain" is any other payload.
ReportKind(issue_id) == IF issue_id = "1" THEN "api" ELSE "plain"

\* Whether the report file of a row calls for a timeline download.
HasTimelineUrl(r) == ReportKind(r.issue_id) = "api"

Snapshot(p) ==
    [mirror |-> mirror[p], index |-> index[KeyOf(p)], gitlog |-> gitlog[p],
     ledger |-> ledger[p], reports |-> reports[p], timelines |-> timelines[p],
     patches |-> patches[p]]

NoSnapshot ==
    [mirror |-> "absent", index |-> "absent", gitlog |-> "absent", ledger |-> NoFile,
     reports |-> {}, timelines |-> {}, patches |-> {}]

NoAnswer == Response("none", <<>>, <<>>)
NotDone == [done |-> FALSE, answer |-> NoAnswer, fixed |-> <<>>, gitout |-> GitOut(FALSE, <<>>)]

XrefOff ==
    /\ xpc = "off" /\ xruns = 0 /\ xcode = 0 /\ xfile = NoFile /\ xrepo = <<>>
    /\ xknown = {}
    /\ xtasks = <<>> /\ xdone = <<>> /\ results_to_write = <<>>

MatcherOff ==
    /\ mpc = "off" /\ mresp = NoAnswer /\ mrelevant = {} /\ mclient = FALSE /\ mout = <<>>

OrchInit ==
    /\ line = 1 /\ pc = "next" /\ success = TRUE /\ row = 0
    /\ mirror = [p \in Projects |-> "absent"]
    /\ index = [k \in Keys |-> "absent"]
    /\ gitlog = [p \in Projects |-> "absent"]
    /\ outdir = [p \in Projects |-> FALSE]
    /\ ledger = [p \in Projects |-> NoFile]
    /\ reports = [p \in Projects |-> {}]
    /\ timelines = [p \in Projects |-> {}]
    /\ patches = [p \in Projects |-> {}]
    /\ trail = <<>> /\ calls = {} /\ entry = NoSnapshot
    /\ result = [p \in Projects |-> "none"]
    /\ torn = {}

\* utils.py 87, 88.
max_app_retries == 4
first_retry_delay == 15

DownloadOff ==
    /\ dpc = "off" /\ attempt = 0 /\ retry_delay = first_retry_delay
    /\ tried = <<>> /\ slept = <<>> /\ save_to = "absent" /\ dret = "none"

PoolOff == ppc = "off" /\ pool = <<>> /\ pcollected = <<>>

ExecOff == epc = "off" /\ ehas = FALSE /\ efile = "absent" /\ eruns = 0 /\ elog = <<>>

DispOff ==
    /\ cpc = "off" /\ cpid = "A" /\ ctracker = "github" /\ cregex = "" /\ cexists = FALSE
    /\ ccmds = <<>> /\ clog = <<>>

RowOff ==
    /\ tpc = "off" /\ turl = "" /\ tbase = "None" /\ treport = "absent"
    /\ ttimeline = FALSE /\ tcalls = <<>>

AuthOff ==
    /\ duri = "" /\ dbase = "None" /\ dtoken = "None" /\ dapi = ""
    /\ dheaders = {} /\ dsent = <<>>

ListOff ==
    /\ gpc = "off" /\ labels_to_search = <<>> /\ label_ix = 0 /\ page_count = 0
    /\ issues_file = "stale" /\ exit_code = -1

YsOff == DispOff /\ RowOff /\ AuthOff /\ ListOff

Init == OrchInit /\ XrefOff /\ MatcherOff /\ DownloadOff /\ PoolOff /\ ExecOff /\ YsOff

\* --------------------------------------------- the orchestrator: actions

\* utils.exec_cmd: how the command ended, and what exec_cmd returns for it.
ExecOutcomes == {"exit0", "nonzero", "timeout", "oserror"}
exec_cmd(outcome) == outcome = "exit0"

\* Where process_project goes after a stage: a failed stage returns False.
\* A mutant: a failed stage does not end the call.
AfterStageKeepGoing(how, nextpc) == nextpc

AfterStage(how, nextpc) == IF how = "failed" THEN "returned" ELSE nextpc

\* The bookkeeping every stage ends with.
EndStage(stage, how, nextpc) ==
    /\ trail' = Append(trail, [stage |-> stage, how |-> how])
    /\ pc' = AfterStage(how, nextpc)
    /\ success' = IF pc' = "returned" THEN FALSE ELSE success

\* The artifact checks at stage entry (True: the stage is skipped).
\* A mutant: the clone is made whether or not the mirror exists.
MirrorCachedNever(p) == FALSE
MirrorCached(p) == mirror[p] # "absent"

\* A mutant: the index is downloaded whether or not the file is there.
IndexCachedNever(k) == FALSE
\* A mutant: a zero-length index counts as cached.
IndexCachedIfExists(k) == index[k] # "absent"
IndexCached(k) == ~(index[k] = "absent" \/ index[k] = "empty")

\* A mutant: the log is collected whether or not the snapshot exists.
LogCachedNever(p) == FALSE
LogCached(p) == gitlog[p] # "absent"
LedgerCached(p) == ledger[p].exists

\* main's loop reads the next line and enters process_project, which creates
\* the project's directories.
StartProject ==
    /\ pc = "next" /\ line <= Len(Batch)
    /\ outdir' = [outdir EXCEPT ![cur] = TRUE]
    /\ trail' = <<>> /\ calls' = {} /\ entry' = Snapshot(cur)
    /\ pc' = "CLONE_REPO" /\ row' = 0
    /\ UNCHANGED <<line, success, mirror, index, gitlog, ledger, reports,
                   timelines, patches, result, xs, torn>>

\* 3a. git clone --bare, unless the mirror directory exists.  A clone that is
\* killed at its timeout can leave the directory behind.
CloneRepo ==
    /\ pc = "CLONE_REPO"
    /\ IF MirrorCached(cur)
       THEN /\ EndStage("CLONE_REPO", "skipped", "FETCH_ISSUE_INDEX")
            /\ UNCHANGED <<mirror, calls>>
       ELSE \E out \in ExecOutcomes :
            /\ calls' = calls \cup {"clone"}
            /\ mirror' = [mirror EXCEPT ![cur] =
                            IF out = "exit0" THEN "complete"
                            ELSE IF out = "timeout" THEN "partial" ELSE "absent"]
            /\ EndStage("CLONE_REPO", IF exec_cmd(out) THEN "ran" ELSE "failed",
                        "FETCH_ISSUE_INDEX")
    /\ UNCHANGED <<line, row, index, gitlog, outdir, ledger, reports, timelines,
                   patches, entry, result, xs, torn>>

\* What download_issues.py can leave in the index file: it truncates the file
\* and appends page by page, and exits 0 also when it stopped early or found
\* nothing; a failure may come before the file is touched.
IndexAfter(before, out) ==
    IF exec_cmd(out) THEN {"complete", "partial", "empty"}
    ELSE {before, "empty", "partial"}

\* 3b. download_issues.py, unless the shared index exists and is not empty.
FetchIssueIndex ==
    /\ pc = "FETCH_ISSUE_INDEX"
    /\ LET k == KeyOf(cur)
       IN  IF IndexCached(k)
           THEN /\ EndStage("FETCH_ISSUE_INDEX", "skipped", "COLLECT_LOG")
                /\ UNCHANGED <<index, calls>>
           ELSE \E out \in ExecOutcomes : \E after \in IndexAfter(index[k], out) :
                /\ calls' = calls \cup {"download_issues"}
                /\ index' = [index EXCEPT ![k] = after]
                /\ EndStage("FETCH_ISSUE_INDEX", IF exec_cmd(out) THEN "ran" ELSE "failed",
                            "COLLECT_LOG")
    /\ UNCHANGED <<line, row, mirror, gitlog, outdir, ledger, reports, timelines,
                   patches, entry, result, xs, torn>>

\* 3c. git log --reverse into gitlog.txt, unless that file exists.  exec_cmd
\* removes the output file when the command exits non-zero or times out, and
\* leaves the file it opened when subprocess.run raises an OSError; git log
\* exits non-zero on a mirror that is not a complete repository.
CollectLog ==
    /\ pc = "COLLECT_LOG"
    /\ IF LogCached(cur)
       THEN /\ EndStage("COLLECT_LOG", "skipped", "CROSS_REFERENCE")
            /\ UNCHANGED <<gitlog, calls>>
       ELSE \E out \in ExecOutcomes :
            /\ out = "exit0" => mirror[cur] = "complete"
            /\ calls' = calls \cup {"gitlog"}
            /\ gitlog' = [gitlog EXCEPT ![cur] =
                            IF exec_cmd(out) THEN "complete"
                            ELSE IF out = "oserror" THEN "partial" ELSE "absent"]
            /\ EndStage("COLLECT_LOG", IF exec_cmd(out) THEN "ran" ELSE "failed",
                        "CROSS_REFERENCE")
    /\ UNCHANGED <<line, row, mirror, index, outdir, ledger, reports, timelines,
                   patches, entry, result, xs, torn>>

\* What a run of llm_xref.py can meet: whether the API key is set, whether a
\* parent lookup timed out or the ledger could not be opened for append, and
\* the results Pass 2 collected.
ResultsTable ==
    [p \in Projects, st \in IndexStates |->
        XrefResults(tasks_to_process(GitLogOf(p), IndexKeys(st)), TRUE)]

XrefEnvs(p, indexState) ==
    {[hasClient |-> FALSE, raised |-> FALSE, results |-> <<>>],
     [hasClient |-> TRUE, raised |-> TRUE, results |-> <<>>]}
    \cup {[hasClient |-> TRUE, raised |-> FALSE, results |-> res] :
            res \in ResultsTable[p, indexState]}

\* The matcher is started once the header row is in the file.
MatcherInvoked(headerWritten) == headerWritten

\* 3d. Unless the ledger file exists: write the header row, then run the
\* matcher (llm_xref.py for a github tracker) as a subprocess.
CrossReference ==
    /\ pc = "CROSS_REFERENCE"
    /\ IF LedgerCached(cur)
       THEN /\ EndStage("CROSS_REFERENCE", "skipped", "MATERIALIZE_ARTIFACTS")
            /\ UNCHANGED <<ledger, calls>>
       ELSE \E headerWritten \in BOOLEAN :
            IF MatcherInvoked(headerWritten)
            THEN \E env \in XrefEnvs(cur, index[KeyOf(cur)]) :
                 LET x == XrefExit(FileOf(<<HEADER>>), index[KeyOf(cur)], gitlog[cur], cur, env)
                 IN  /\ calls' = calls \cup {"matcher"}
                                  \cup (IF env.hasClient THEN {} ELSE {"no_api_key"})
                     /\ ledger' = [ledger EXCEPT ![cur] = x.file]
                     /\ EndStage("CROSS_REFERENCE", IF x.code = 0 THEN "ran" ELSE "failed",
                                 "MATERIALIZE_ARTIFACTS")
            ELSE \E left \in {NoFile, FileOf(<<>>)} :
                 /\ ledger' = [ledger EXCEPT ![cur] = left]
                 /\ calls' = calls
                 /\ EndStage("CROSS_REFERENCE", "failed", "MATERIALIZE_ARTIFACTS")
    /\ torn' = IF LedgerCached(cur) THEN torn ELSE torn \ {<<"ledger", cur>>}
    /\ UNCHANGED <<line, row, mirror, index, gitlog, outdir, reports, timelines,
                   patches, entry, result, xs>>

\* 4. The ledger is opened and its header row located; an empty file or a
\* header without the expected columns ends the project in failure.
MaterializeOpen ==
    /\ pc = "MATERIALIZE_ARTIFACTS" /\ row = 0
    /\ IF Len(ledger[cur].lines) > 0 /\ ledger[cur].lines[1] = HEADER
       THEN /\ row' = 1
            /\ UNCHANGED <<pc, success, trail>>
       ELSE /\ row' = 0
            /\ EndStage("MATERIALIZE_ARTIFACTS", "failed", "returned")
    /\ UNCHANGED <<line, mirror, index, gitlog, outdir, ledger, reports, timelines,
                   patches, calls, entry, result, xs, torn>>

\* git diff for a patch: exit 0, CalledProcessError, TimeoutExpired, or an
\* IOError (git missing, the patch file not writable).
DiffOutcomes == {"exit0", "nonzero", "timeout", "ioerror"}

\* What a download can return where one is made; none is made for a file
\* that exists or a row without a URL.
Got(needed) == IF needed THEN BOOLEAN ELSE {FALSE}

\* How git diff ends where it is run; it is not run for a row whose patch
\* exists or whose hashes are missing.
DiffRun(needed) == IF needed THEN DiffOutcomes ELSE {"not_run"}

\* A mutant: no artifact file is ever found on disk.
ArtifactExistsNever(files, bug_id) == FALSE

\* os.path.exists on the report, timeline or patch file of a bug.
ArtifactExists(files, bug_id) == bug_id \in files

\* 4a/4b for the row the loop is at: the report if its file is missing, the
\* timeline if the report names one and its file is missing, the patch if its
\* file is missing.
MaterializeRow ==
    /\ pc = "MATERIALIZE_ARTIFACTS" /\ row >= 1 /\ row <= Len(DataRows(ledger[cur]))
    /\ LET r == DataRows(ledger[cur])[row]
           bug_id == r.vid
           hasUrl == r.issue_url # "" /\ r.issue_url # "NA"
           needReport == hasUrl /\ ~ArtifactExists(reports[cur], bug_id)
       IN  \E gotReport \in Got(needReport) :
           LET reports1 == IF needReport /\ gotReport THEN reports[cur] \cup {bug_id}
                           ELSE reports[cur]
               needTimeline == /\ hasUrl /\ ArtifactExists(reports1, bug_id)
                               /\ ~ArtifactExists(timelines[cur], bug_id)
                               /\ HasTimelineUrl(r)
               needPatch == r.buggy # "" /\ r.fixed # ""
                            /\ ~ArtifactExists(patches[cur], bug_id)
           IN  \E gotTimeline \in Got(needTimeline), diff \in DiffRun(needPatch) :
               /\ reports' = [reports EXCEPT ![cur] = reports1]
               /\ timelines' = [timelines EXCEPT ![cur] =
                                  IF needTimeline /\ gotTimeline THEN @ \cup {bug_id} ELSE @]
               /\ calls' = calls \cup (IF needReport THEN {"report"} ELSE {})
                                 \cup (IF needTimeline THEN {"timeline"} ELSE {})
                                 \cup (IF needPatch THEN {"diff"} ELSE {})
               /\ diff = "exit0" => mirror[cur] = "complete"
               /\ IF ~needPatch \/ diff \in {"exit0", "nonzero"}
                  THEN /\ patches' = [patches EXCEPT ![cur] =
                                        IF needPatch /\ diff = "exit0" THEN @ \cup {bug_id} ELSE @]
                       /\ row' = row + 1
                       /\ UNCHANGED <<pc, success, trail, result>>
                  ELSE IF diff = "ioerror"
                  THEN /\ \E left \in BOOLEAN :
                            patches' = [patches EXCEPT ![cur] =
                                          IF left THEN @ \cup {bug_id} ELSE @]
                       /\ row' = row
                       /\ EndStage("MATERIALIZE_ARTIFACTS", "failed", "returned")
                       /\ UNCHANGED result
                  ELSE /\ patches' = patches /\ row' = row
                       /\ trail' = Append(trail, [stage |-> "MATERIALIZE_ARTIFACTS",
                                                  how |-> "raised"])
                       /\ pc' = "aborted" /\ success' = success
                       /\ result' = [result EXCEPT ![cur] = "raised"]
    /\ UNCHANGED <<line, mirror, index, gitlog, outdir, ledger, entry, xs, torn>>

\* The loop over the rows is over: process_project returns True.
MaterializeDone ==
    /\ pc = "MATERIALIZE_ARTIFACTS" /\ row > Len(DataRows(ledger[cur]))
    /\ trail' = Append(trail, [stage |-> "MATERIALIZE_ARTIFACTS", how |-> "ran"])
    /\ pc' = "returned" /\ success' = TRUE
    /\ UNCHANGED <<line, row, mirror, index, gitlog, outdir, ledger, reports,
                   timelines, patches, calls, entry, result, xs, torn>>

\* What main's clean-up removes for a failed project: its output tree only.
\* A mutant: the clean-up also removes the project's cache directory.
RemovedByCleanupWithCache(p) == [out |-> {p}, cache |-> {p}]
RemovedByCleanup(p) == [out |-> {p}, cache |-> {}]

\* Whether main cleans up after process_project returned `ok`.
CleansUp(ok) == ~ok

\* main after process_project returned: on failure shutil.rmtree of the
\* project's output directory (an OSError is reported and ignored), then the
\* next line.
MainAfter ==
    /\ pc = "returned"
    /\ result' = [result EXCEPT ![cur] = IF success THEN "ok" ELSE "failed"]
    /\ \E rmtreeOk \in (IF CleansUp(success) /\ outdir[cur] THEN BOOLEAN ELSE {TRUE}) :
         LET gone == IF CleansUp(success) /\ outdir[cur] /\ rmtreeOk
                     THEN RemovedByCleanup(cur) ELSE [out |-> {}, cache |-> {}]
         IN  /\ outdir' = [p \in Projects |-> IF p \in gone.out THEN FALSE ELSE outdir[p]]
             /\ ledger' = [p \in Projects |-> IF p \in gone.out THEN NoFile ELSE ledger[p]]
             /\ reports' = [p \in Projects |-> IF p \in gone.out THEN {} ELSE reports[p]]
             /\ timelines' = [p \in Projects |-> IF p \in gone.out THEN {} ELSE timelines[p]]
             /\ patches' = [p \in Projects |-> IF p \in gone.out THEN {} ELSE patches[p]]
             /\ mirror' = [p \in Projects |-> IF p \in gone.cache THEN "absent" ELSE mirror[p]]
             /\ gitlog' = [p \in Projects |-> IF p \in gone.cache THEN "absent" ELSE gitlog[p]]
             /\ torn' = (torn \ {<<"ledger", p>> : p \in gone.out}) \ {<<"noledger", cur>>}
    /\ line' = line + 1 /\ pc' = "next"
    /\ success' = TRUE /\ row' = 0
    /\ trail' = <<>> /\ calls' = {} /\ entry' = NoSnapshot
    /\ UNCHANGED <<index, xs>>

\* The input file is exhausted: "All projects processed."
AllProcessed ==
    /\ pc = "next" /\ line > Len(Batch)
    /\ pc' = "done"
    /\ UNCHANGED <<line, success, row, fsVars, trail, calls, entry, result, xs, torn>>

\* The orchestrator is started again on the same batch.
RunAgain ==
    /\ pc \in {"done", "aborted", "killed"}
    /\ line' = 1 /\ pc' = "next" /\ row' = 0
    /\ trail' = <<>> /\ calls' = {} /\ entry' = NoSnapshot
    /\ result' = [p \in Projects |-> "none"]
    /\ success' = TRUE
    /\ UNCHANGED <<fsVars, xs, torn>>

\* Between orchestrator runs llm_xref.py is run by hand on a project's files
\* (its -f option appends to the ledger given).
StandaloneXref(p) ==
    /\ pc \in {"done", "aborted"} /\ outdir[p]
    /\ \E file \in {XrefExit(ledger[p], index[KeyOf(p)], gitlog[p], p, env).file :
                        env \in XrefEnvs(p, index[KeyOf(p)])} :
         /\ Len(DataRows(file)) <= MaxRows
         /\ ledger' = [ledger EXCEPT ![p] = file]
    /\ UNCHANGED <<line, pc, success, row, mirror, index, gitlog, outdir, reports,
                   timelines, patches, trail, calls, entry, result, xs, torn>>

Next ==
    \/ StartProject
    \/ CloneRepo
    \/ FetchIssueIndex
    \/ CollectLog
    \/ CrossReference
    \/ MaterializeOpen
    \/ MaterializeRow
    \/ MaterializeDone
    \/ MainAfter
    \/ AllProcessed
    \/ RunAgain
    \/ \E p \in Projects : StandaloneXref(p)

Spec == Init /\ [][Next]_vars

\* ------------------------------------------------- claims under Spec

InProject == pc \in {StageOrder[i] : i \in 1..Len(StageOrder)} \cup {"returned"}
StageIndex(st) == CHOOSE i \in 1..Len(StageOrder) : StageOrder[i] = st

\* C1: within one process_project call the stages are attempted in the fixed
\* order CLONE_REPO .. MATERIALIZE_ARTIFACTS: the i-th stage attempted is the
\* i-th stage of the order (none is skipped over or revisited), every stage
\* before the last attempted one ran or was skipped as cached, and the stage the
\* call is at is the one after those attempted so far.
C1_StageOrder ==
    /\ Len(trail) <= Len(StageOrder)
    /\ \A i \in 1..Len(trail) : trail[i].stage = StageOrder[i]
    /\ \A i \in 1..(Len(trail) - 1) : trail[i].how \in {"ran", "skipped"}
    /\ pc \in {StageOrder[i] : i \in 1..Len(StageOrder)} =>
         /\ StageIndex(pc) = Len(trail) + 1
         /\ \A i \in 1..Len(trail) : trail[i].how \in {"ran", "skipped"}
    /\ pc = "returned" /\ success => Len(trail) = Len(StageOrder)

\* A call that skipped the clone, ran the matcher and finished all five stages.
C1_Witness ==
    /\ pc = "returned" /\ success /\ Len(trail) = 5
    /\ trail[1].how = "skipped" /\ trail[4].how = "ran"

\* A call whose third stage failed after two stages that went through.
C1_WitnessFailed ==
    /\ pc = "returned" /\ ~success /\ Len(trail) = 3 /\ trail[3].how = "failed"

\* The first three stages of C2: the external call is made iff the artifact
\* check fails in the state the stage is entered in.
CacheStagesCallIffMissing ==
    /\ pc = "CLONE_REPO" =>
         (("clone" \in calls') <=> mirror[cur] = "absent")
    /\ pc = "FETCH_ISSUE_INDEX" =>
         (("download_issues" \in calls') <=> index[KeyOf(cur)] \in {"absent", "empty"})
    /\ pc = "COLLECT_LOG" =>
         (("gitlog" \in calls') <=> gitlog[cur] = "absent")

Populated(e) ==
    /\ e.mirror = "complete" /\ e.index = "complete" /\ e.gitlog = "complete"
    /\ e.ledger.exists /\ Len(e.ledger.lines) >= 1 /\ e.ledger.lines[1] = HEADER

\* Every row of the ledger has its report, its timeline where the report
\* names one, and its patch.
Materialized(e) ==
    \A i \in 1..Len(DataRows(e.ledger)) :
        LET r == DataRows(e.ledger)[i]
        IN  /\ r.vid \in e.reports
            /\ HasTimelineUrl(r) => r.vid \in e.timelines
            /\ r.vid \in e.patches

\* C3 as claimed: a run on a project whose caches and ledger are populated
\* makes no external call and leaves the ledger as it was.
C3_Idempotent ==
    [][InProject /\ Populated(entry) =>
          /\ pc # "returned" => calls' = {}
          /\ ledger'[cur] = entry.ledger]_vars

\* C3 amended: the same for a project whose caches and ledger are populated
\* and whose ledger rows all have their report, timeline and patch files.
C3_IdempotentWhenMaterialized ==
    [][InProject /\ Populated(entry) /\ Materialized(entry) =>
          /\ pc # "returned" => calls' = {}
          /\ ledger'[cur] = entry.ledger]_vars

\* A second run over a ledger with a row ended with no call made.
C3_Witness ==
    /\ pc = "returned" /\ success /\ calls = {}
    /\ Populated(entry) /\ Materialized(entry)
    /\ Len(DataRows(entry.ledger)) >= 1
    /\ ledger[cur] = entry.ledger

Ended(p) == result[p] \in {"failed", "raised"}

\* C4: once the orchestrator has moved on from a project whose processing
\* ended in failure, that project's output directory does not exist, and
\* when main has ended the project after it has been processed.
C4_RollbackOnFailure ==
    \A i \in 1..Len(Batch) :
        Ended(Batch[i]) =>
            /\ ~outdir[Batch[i]]
            /\ (pc \in {"done", "aborted"} /\ i < Len(Batch)) => result[Batch[i + 1]] # "none"

\* C5: when main has ended, every project listed after a project that failed
\* has been processed.
C5_BatchContinues ==
    pc \in {"done", "aborted"} =>
        \A i, j \in 1..Len(Batch) :
            (Ended(Batch[i]) /\ i < j) => result[Batch[j]] # "none"

Others(p) == Projects \ {p}

\* C6: the clean-up after a failed project leaves every mirror, log snapshot
\* and issue index as it was, and the output tree of every other project.
C6_RollbackFrame ==
    [][pc = "returned" =>
          /\ mirror' = mirror /\ gitlog' = gitlog /\ index' = index
          /\ \A q \in Others(cur) :
                /\ outdir'[q] = outdir[q] /\ ledger'[q] = ledger[q]
                /\ reports'[q] = reports[q] /\ timelines'[q] = timelines[q]
                /\ patches'[q] = patches[q]]_vars

\* Project B has been rolled back with its mirror and log in place, while
\* project A's ledger and a patch of it exist.
C6_Witness ==
    /\ result["B"] = "failed" /\ ~outdir["B"]
    /\ mirror["B"] = "complete" /\ gitlog["B"] = "complete" /\ index[KeyOf("B")] = "complete"
    /\ Len(DataRows(ledger["A"])) >= 1 /\ patches["A"] # {}

\* The data rows of f are still in g, in place.
RowsKept(f, g) ==
    /\ Len(DataRows(g)) >= Len(DataRows(f))
    /\ \A i \in 1..Len(DataRows(f)) : DataRows(g)[i] = DataRows(f)[i]

\* C7 as claimed: no step rewrites or removes a row that is in a ledger.
C7_AppendOnly == [][\A p \in Projects : RowsKept(ledger[p], ledger'[p])]_vars

\* C7 amended: a row that is in a ledger is never rewritten, and it is removed
\* only when the clean-up after a failed run deletes the whole ledger file;
\* the matcher adds its rows after the existing ones.
C7_AppendOnlyUntilRollback ==
    [][\A p \in Projects :
          \/ RowsKept(ledger[p], ledger'[p])
          \/ pc = "returned" /\ ~success /\ p = cur /\ ledger'[p] = NoFile /\ ~outdir'[p]]_vars

\* A ledger to which a later matcher run added a row for a pair that an
\* earlier run had already recorded.
C7_Witness ==
    \E p \in Projects :
        /\ Len(DataRows(ledger[p])) >= 2
        /\ DataRows(ledger[p])[1].issue_id = DataRows(ledger[p])[2].issue_id
        /\ DataRows(ledger[p])[1].vid # DataRows(ledger[p])[2].vid


\* ------------------------------------------ llm_xref.main, step by step

\* The project llm_xref.py is started on with -pid.
XrefProject == "X"
XrefCommits == {"c1", "c3"}

\* What git rev-list --parents prints for a commit: a root commit, a commit
\* with one parent, a merge.
PartsOf(c) == {<<c>>, <<c, ParentOf(c)>>, <<c, ParentOf(c), "q">>}
Repos == {r \in [XrefCommits -> UNION {PartsOf(c) : c \in XrefCommits}] :
            \A c \in XrefCommits : r[c] \in PartsOf(c)}
\* One call of git rev-list: its output, or a non-zero exit.
GitCalls(repo, c) == {GitOut(TRUE, repo[c]), GitOut(FALSE, <<>>)}

\* The model answers a run draws from.
XrefAnswers ==
    {FixedIdsAnswer(<<>>), FixedIdsAnswer(<<Item(TRUE, "1")>>),
     Response("list", <<Item(TRUE, "2"), Item(TRUE, "1")>>, <<>>),
     Response("list", <<Item(TRUE, "999"), Item(TRUE, "2")>>, <<>>),
     Response("list", <<Item(TRUE, "1"), Item(TRUE, "1")>>, <<>>),
     Response("dict", <<>>, <<Pair("fixed_ids", TRUE, <<>>),
                              Pair("related", TRUE, <<Item(TRUE, "1")>>)>>),
     Response("dict", <<>>, <<Pair("fixed_ids", FALSE, <<>>)>>),
     Response("badjson", <<>>, <<>>), Response("error", <<>>, <<>>),
     Response("other", <<>>, <<>>)}

InitXref ==
    /\ OrchInit /\ MatcherOff /\ DownloadOff /\ PoolOff /\ ExecOff /\ YsOff
    /\ xpc = "idle" /\ xruns = 0 /\ xcode = 0
    /\ xfile \in {NoFile, FileOf(<<>>), FileOf(<<HEADER>>)}
    /\ xrepo \in Repos
    /\ xknown = {} /\ xtasks = <<>> /\ xdone = <<>> /\ results_to_write = <<>>

XrefExits(code) ==
    /\ xpc' = "exited"
    /\ xcode' = code

\* main up to the start of Pass 2: load the index, scan the log, and leave
\* early when there is nothing to do or no client.
XStart ==
    /\ xpc \in {"idle", "exited"}
    /\ xruns < MaxXrefRuns
    /\ xruns' = xruns + 1
    /\ \E st \in IndexStates, logReadable \in BOOLEAN, hasClient \in BOOLEAN :
        LET known == IndexKeys(st)
            tasks == tasks_to_process(GitLogOf(XrefProject), known)
        IN  /\ xknown' = known
            /\ results_to_write' = <<>>
            /\ IF known = {} \/ ~logReadable
               THEN XrefExits(1) /\ xtasks' = <<>> /\ xdone' = <<>>
               ELSE IF Len(tasks) = 0 \/ ~hasClient
               THEN XrefExits(0) /\ xtasks' = <<>> /\ xdone' = <<>>
               ELSE /\ xpc' = "pass2"
                    /\ xcode' = xcode
                    /\ xtasks' = tasks
                    /\ xdone' = [i \in 1..Len(tasks) |-> NotDone]
    /\ UNCHANGED <<xfile, xrepo, orchVars, matcherVars, dlVars, poolVars, execVars, ys>>

\* One iteration of the as_completed loop: any future that has not been
\* collected may be the next to complete.
XComplete(i) ==
    /\ xpc = "pass2"
    /\ ~xdone[i].done
    /\ \E answer \in XrefAnswers :
        LET fixed_ids == get_fixed_bug_ids(answer, xtasks[i].relevant, TRUE)
        IN  \E g \in IF Len(fixed_ids) = 0 THEN {NotDone.gitout}
                     ELSE GitCalls(xrepo, xtasks[i].c) :
                /\ xdone' = [xdone EXCEPT ![i] = [done |-> TRUE, answer |-> answer,
                                                  fixed |-> fixed_ids, gitout |-> g]]
                /\ results_to_write' =
                       CollectResult(results_to_write, xtasks[i].c, fixed_ids, g)
    /\ UNCHANGED <<xpc, xruns, xcode, xfile, xrepo, xknown, xtasks, orchVars, matcherVars, dlVars, poolVars, execVars, ys>>

\* git rev-list does not answer within its timeout: TimeoutExpired is not
\* handled by get_git_parent and ends the process.
XParentTimeout(i) ==
    /\ xpc = "pass2"
    /\ ~xdone[i].done
    /\ \E answer \in XrefAnswers :
          Len(get_fixed_bug_ids(answer, xtasks[i].relevant, TRUE)) > 0
    /\ XrefExits(1)
    /\ UNCHANGED <<xruns, xfile, xrepo, xknown, xtasks, xdone, results_to_write,
                   orchVars, matcherVars, dlVars, poolVars, execVars, ys>>

\* Pass 3.
\* A mutant: Pass 3 may write while futures are still outstanding.
WriteReadyEarly(done) == TRUE

\* The as_completed loop has yielded every future.
WriteReady(done) == \A i \in 1..Len(done) : done[i].done

XWrite ==
    /\ xpc = "pass2"
    /\ WriteReady(xdone)
    /\ \E ioerror \in BOOLEAN :
          IF ioerror THEN XrefExits(1) /\ xfile' = xfile
          ELSE XrefExits(0) /\ xfile' = WriteCSV(xfile, results_to_write, XrefProject)
    /\ UNCHANGED <<xruns, xrepo, xknown, xtasks, xdone, results_to_write,
                   orchVars, matcherVars, dlVars, poolVars, execVars, ys>>

NextXref ==
    \/ XStart
    \/ \E i \in 1..Len(xtasks) : XComplete(i)
    \/ \E i \in 1..Len(xtasks) : XParentTimeout(i)
    \/ XWrite

SpecXref == InitXref /\ [][NextXref]_vars

\* The last run got through Pass 3 and wrote.
Written ==
    /\ xpc = "exited" /\ xcode = 0
    /\ Len(xtasks) > 0
    /\ \A i \in 1..Len(xtasks) : xdone[i].done

VidOf(r) == IntOfStr(r.vid)
LastVid(rows) == IF Len(rows) = 0 THEN 0 ELSE VidOf(rows[Len(rows)])

VidsIncreasing(rows) ==
    /\ \A k \in 1..Len(rows) : VidOf(rows[k]) >= 1
    /\ \A k \in 1..Len(rows) - 1 : VidOf(rows[k]) < VidOf(rows[k + 1])

\* The step in which Pass 3 writes appends one row per result, numbered
\* from the last existing vid plus one (from 1 onto a ledger without rows).
BlockContiguous ==
    (xpc = "pass2" /\ xpc' = "exited" /\ xcode' = 0) =>
        LET old == DataRows(xfile)
            new == DataRows(xfile')
        IN  /\ Len(new) = Len(old) + Len(results_to_write)
            /\ \A k \in 1..Len(results_to_write) :
                   VidOf(new[Len(old) + k]) = LastVid(old) + k

\* C8: after any number of cross-reference appends the vids of a ledger are,
\* in file order, unique and strictly increasing, and the rows one run appends
\* are numbered contiguously from the last existing row's vid plus one.
C8_MonotonicVid ==
    /\ [](VidsIncreasing(DataRows(xfile)))
    /\ [][BlockContiguous]_vars

\* A second run has appended at least two rows after the rows of the first.
C8_Witness ==
    /\ Written /\ xruns = 2
    /\ Len(results_to_write) >= 2
    /\ Len(DataRows(xfile)) > Len(results_to_write)

HasRow(rows, buggy, fixed, issue_id) ==
    \E k \in 1..Len(rows) :
        rows[k].buggy = buggy /\ rows[k].fixed = fixed /\ rows[k].issue_id = issue_id

\* C9: a commit with two or more parents, or with none, never has a ledger
\* row (every row's fixed revision has exactly one parent, which is the row's
\* buggy revision); and in a run that writes, a commit D for which the matcher
\* returned fixed ids and git reported exactly one parent P has a row
\* (P, D, id) for each of those ids.
C9_ParentUniqueness ==
    /\ \A k \in 1..Len(DataRows(xfile)) :
          LET r == DataRows(xfile)[k]
          IN  /\ r.fixed \in XrefCommits
              /\ Len(xrepo[r.fixed]) = 2
              /\ r.buggy = xrepo[r.fixed][2]
    /\ Written =>
          \A i \in 1..Len(xtasks) :
              (Len(xdone[i].fixed) > 0 /\ xdone[i].gitout.ok /\ Len(xdone[i].gitout.parts) = 2) =>
                  \A j \in 1..Len(xdone[i].fixed) :
                      HasRow(DataRows(xfile), xdone[i].gitout.parts[2], xtasks[i].c,
                             xdone[i].fixed[j])

\* One run adjudicated a merge and a single-parent commit as fixes and wrote.
C9_Witness ==
    /\ Written
    /\ \E i, j \in 1..Len(xtasks) :
          /\ Len(xdone[i].fixed) > 0 /\ xdone[i].gitout.ok /\ Len(xdone[i].gitout.parts) = 3
          /\ Len(xdone[j].fixed) > 0 /\ xdone[j].gitout.ok /\ Len(xdone[j].gitout.parts) = 2
    /\ Len(DataRows(xfile)) > 0

\* ------------------------------------------- get_fixed_bug_ids on its own

\* The values a key of a dict answer may hold.
AnswerLists ==
    {<<>>, <<Item(TRUE, "1")>>, <<Item(TRUE, "999")>>, <<Item(TRUE, "2"), Item(FALSE, "1")>>}
AnswerKeys == {"fixed_ids", "fix", "related"}
AnswerPairs ==
    {Pair(k, TRUE, l) : k \in AnswerKeys, l \in AnswerLists}
        \cup {Pair(k, FALSE, <<>>) : k \in AnswerKeys}
AnswerDicts ==
    {<<>>} \cup {<<a>> : a \in AnswerPairs}
        \cup {<<ab[1], ab[2]>> : ab \in {x \in AnswerPairs \X AnswerPairs : x[1].key # x[2].key}}

\* Everything the model call can produce.
Responses ==
    {Response("list", l, <<>>) : l \in ItemLists}
        \cup {Response("dict", <<>>, d) : d \in AnswerDicts}
        \cup {Response(k, <<>>, <<>>) : k \in {"error", "badjson", "other"}}

InitMatcher ==
    /\ OrchInit /\ XrefOff /\ DownloadOff /\ PoolOff /\ ExecOff /\ YsOff
    /\ mpc = "called"
    /\ mresp \in Responses
    /\ mrelevant \in SUBSET (IssueIds \cup {"3"})
    /\ mclient \in BOOLEAN
    /\ mout = <<>>

MatcherReturns ==
    /\ mpc = "called"
    /\ mpc' = "returned"
    /\ mout' = get_fixed_bug_ids(mresp, mrelevant, mclient)
    /\ UNCHANGED <<mresp, mrelevant, mclient, orchVars, xrefVars, dlVars, poolVars, execVars, ys>>

NextMatcher == MatcherReturns

SpecMatcher == InitMatcher /\ [][NextMatcher]_vars

\* C10: whatever the model call produced, the list get_fixed_bug_ids returns
\* holds only elements of the relevant ids it was given.
C10_MatcherContainment ==
    mpc = "returned" => \A k \in 1..Len(mout) : mout[k] \in mrelevant

\* An answer that names a relevant id and an id that is not relevant came
\* back with the relevant one only.
C10_Witness ==
    /\ mpc = "returned"
    /\ mresp.kind = "list"
    /\ \E k \in 1..Len(mresp.items) : mresp.items[k].isStr /\ mresp.items[k].v \notin mrelevant
    /\ Len(mout) = 1

\* ------------------------------------------------ claims C11 to C20

\* An answer that is no usable adjudication: the call raised, the text is not
\* JSON, the JSON is neither a list nor an object, or it is an object without
\* any list value.
Unusable(a) ==
    \/ a.kind \in {"error", "badjson", "other"}
    \/ a.kind = "dict" /\ \A k \in 1..Len(a.pairs) : ~a.pairs[k].isList

\* Collecting the future of task i whose answer is unusable adds no result and
\* leaves the run in Pass 2 with the other tasks as they were.
UnusableSkipsOnlyItsCommit ==
    \A i \in 1..Len(xtasks) :
        (xpc = "pass2" /\ ~xdone[i].done /\ xdone'[i].done /\ Unusable(xdone'[i].answer)) =>
            /\ xpc' = "pass2"
            /\ results_to_write' = results_to_write
            /\ \A j \in 1..Len(xtasks) : j # i => xdone'[j] = xdone[j]

\* C11: an unusable model answer or a failed call gives the empty list for
\* that commit only: the run stays in Pass 2, and a run that then writes has
\* collected every task and holds the rows of each commit adjudicated as a fix
\* whose single parent git reported.
C11_FailClosed ==
    /\ [](\A i \in 1..Len(xdone) :
             (xdone[i].done /\ Unusable(xdone[i].answer)) => xdone[i].fixed = <<>>)
    /\ [][UnusableSkipsOnlyItsCommit]_vars
    /\ [](Written =>
             \A j \in 1..Len(xtasks) :
                 (Len(xdone[j].fixed) > 0 /\ get_git_parent(xdone[j].gitout) # None) =>
                     \A k \in 1..Len(xdone[j].fixed) :
                         HasRow(DataRows(xfile), get_git_parent(xdone[j].gitout),
                                xtasks[j].c, xdone[j].fixed[k]))

\* A run in which one commit's answer was not JSON and the other commit's rows
\* were written.
C11_Witness ==
    /\ Written
    /\ \E i, j \in 1..Len(xtasks) :
          /\ xdone[i].answer.kind = "badjson"
          /\ Len(xdone[j].fixed) > 0
          /\ HasRow(DataRows(xfile), ParentOf(xtasks[j].c), xtasks[j].c, xdone[j].fixed[1])

\* The step in which Pass 3 writes.
WriteStep == xpc = "pass2" /\ xpc' = "exited" /\ xcode' = 0

\* The positions, among the data rows of the ledger after the write, of the
\* rows the write appended.
AppendedAt == (Len(DataRows(xfile)) + 1)..Len(DataRows(xfile'))

\* C12: every row a run appends has an issue id that is a key of the issue
\* index the run loaded, and the URL the index holds for that id.
C12_RowsFromIndex ==
    [][WriteStep =>
          \A k \in AppendedAt :
              LET r == DataRows(xfile')[k]
              IN  /\ r.issue_id \in xknown
                  /\ r.issue_url = UrlOf(r.issue_id)]_vars

\* A run over an index that holds issue 1 only, whose model answer named
\* issues 2 and 1, wrote the row of issue 1.
C12_Witness ==
    /\ Written
    /\ xknown = {"1"}
    /\ xdone[1].answer = Response("list", <<Item(TRUE, "2"), Item(TRUE, "1")>>, <<>>)
    /\ xdone[1].fixed = <<"1">>
    /\ HasRow(DataRows(xfile), ParentOf(xtasks[1].c), xtasks[1].c, "1")

\* C13: among the rows one run appends no two share the pair (fixed revision,
\* issue id), whatever the model answered; and a commit adjudicated as fixing
\* two distinct issues has a row for each.
C13_NoDuplicatePairs ==
    [][WriteStep =>
          /\ \A k, l \in AppendedAt :
                LET rows == DataRows(xfile')
                IN  (k # l) => ~(rows[k].fixed = rows[l].fixed /\ rows[k].issue_id = rows[l].issue_id)
          /\ \A i \in 1..Len(xtasks) :
                (Len(xdone[i].fixed) > 0 /\ get_git_parent(xdone[i].gitout) # None) =>
                    \A j \in 1..Len(xdone[i].fixed) :
                        \E k \in AppendedAt :
                            /\ DataRows(xfile')[k].fixed = xtasks[i].c
                            /\ DataRows(xfile')[k].issue_id = xdone[i].fixed[j]]_vars

\* The ledger Pass 3 would write had the futures of this run completed in
\* order o, with the same answer and the same parent listing per commit.
LedgerForOrder(o) ==
    WriteCSV(xfile,
             Pass2(xtasks, o, [i \in 1..Len(xtasks) |-> xdone[i].answer],
                   [i \in 1..Len(xtasks) |-> xdone[i].gitout], TRUE),
             XrefProject)

\* C14: the ledger a run writes is the one every other completion order of
\* its adjudication calls would have written, given the same answers: rows
\* and vids do not depend on the completion order.
C14_OrderIndependent ==
    [][WriteStep => \A o \in Orders(Len(xtasks)) : xfile' = LedgerForOrder(o)]_vars

\* ------------------------------------------- the orchestrator, interrupted

\* What a stage's external call leaves behind when the orchestrator is killed
\* while the stage is at work.
KillLeavesMirror == {"absent", "partial"}
KillLeavesIndex(before) == {before, "empty", "partial"}
KillLeavesLog == {"absent", "partial"}
KillLeavesLedger == {NoFile, FileOf(<<>>), FileOf(<<HEADER>>)}

\* The orchestrator process is killed inside a stage: no handler and no
\* clean-up runs, and the file the stage was producing stays as it is
\* (nothing is touched when the stage found its artifact).
Kill ==
    /\ pc \in {StageOrder[i] : i \in 1..Len(StageOrder)}
    /\ \/ /\ pc = "CLONE_REPO" /\ ~MirrorCached(cur)
          /\ \E left \in KillLeavesMirror :
               /\ mirror' = [mirror EXCEPT ![cur] = left]
               /\ torn' = IF left = "partial" THEN torn \cup {<<"mirror", cur>>} ELSE torn
          /\ UNCHANGED <<index, gitlog, ledger>>
       \/ /\ pc = "FETCH_ISSUE_INDEX" /\ ~IndexCached(KeyOf(cur))
          /\ \E left \in KillLeavesIndex(index[KeyOf(cur)]) :
               /\ index' = [index EXCEPT ![KeyOf(cur)] = left]
               /\ torn' = IF left = "partial" THEN torn \cup {<<"index", KeyOf(cur)>>} ELSE torn
          /\ UNCHANGED <<mirror, gitlog, ledger>>
       \/ /\ pc = "COLLECT_LOG" /\ ~LogCached(cur)
          /\ \E left \in KillLeavesLog :
               /\ gitlog' = [gitlog EXCEPT ![cur] = left]
               /\ torn' = IF left = "partial" THEN torn \cup {<<"gitlog", cur>>} ELSE torn
          /\ UNCHANGED <<mirror, index, ledger>>
       \/ /\ pc = "CROSS_REFERENCE" /\ ~LedgerCached(cur)
          /\ \E left \in KillLeavesLedger :
               /\ ledger' = [ledger EXCEPT ![cur] = left]
               /\ torn' = torn \cup {<<IF left.exists THEN "ledger" ELSE "noledger", cur>>}
          /\ UNCHANGED <<mirror, index, gitlog>>
       \/ /\ \/ pc = "CLONE_REPO" /\ MirrorCached(cur)
             \/ pc = "FETCH_ISSUE_INDEX" /\ IndexCached(KeyOf(cur))
             \/ pc = "COLLECT_LOG" /\ LogCached(cur)
             \/ pc = "CROSS_REFERENCE" /\ LedgerCached(cur)
             \/ pc = "MATERIALIZE_ARTIFACTS"
          /\ UNCHANGED <<mirror, index, gitlog, ledger, torn>>
    /\ pc' = "killed"
    /\ result' = [result EXCEPT ![cur] = "killed"]
    /\ UNCHANGED <<line, success, row, outdir, reports, timelines, patches, trail,
                   calls, entry, xs>>

NextResume ==
    \/ StartProject
    \/ CloneRepo
    \/ FetchIssueIndex
    \/ CollectLog
    \/ CrossReference
    \/ MaterializeOpen
    \/ MaterializeRow
    \/ MaterializeDone
    \/ MainAfter
    \/ AllProcessed
    \/ RunAgain
    \/ Kill

SpecResume == Init /\ [][NextResume]_vars

\* The stage the run is in is worked through (the step is not another kill).
StageStep == pc \in {StageOrder[i] : i \in 1..Len(StageOrder)} /\ pc' # "killed"

\* C15: a run after an interrupted one does not take a file the interrupted
\* run left unfinished for a completed stage: a partial mirror is cloned
\* again, a partially written issue index is downloaded again, a truncated
\* log snapshot is collected again, and a ledger whose cross-referencing did
\* not finish is cross-referenced again.
C15_ResumesCleanly ==
    [][StageStep =>
          /\ (pc = "CLONE_REPO" /\ <<"mirror", cur>> \in torn /\ mirror[cur] = "partial")
                => "clone" \in calls'
          /\ (pc = "FETCH_ISSUE_INDEX" /\ <<"index", KeyOf(cur)>> \in torn
                 /\ index[KeyOf(cur)] = "partial")
                => "download_issues" \in calls'
          /\ (pc = "COLLECT_LOG" /\ <<"gitlog", cur>> \in torn /\ gitlog[cur] = "partial")
                => "gitlog" \in calls'
          /\ (pc = "CROSS_REFERENCE" /\ <<"ledger", cur>> \in torn /\ ledger[cur].exists)
                => "matcher" \in calls']_vars

\* The run of a project that an earlier run left, killed, after COLLECT_LOG
\* and before the ledger was created.
ResumesBeforeXref ==
    InProject /\ <<"noledger", cur>> \in torn /\ ~entry.ledger.exists

\* C16: the re-run of a project whose earlier run was killed after
\* COLLECT_LOG and before the ledger was created makes no clone and no log
\* collection, leaves the mirror and the log snapshot as they were, and
\* executes CROSS_REFERENCE when it gets there; and a project of the batch
\* whose caches, ledger and artifacts are all present is left unchanged, with
\* no external call made.
C16_ResumesAtCrossReference ==
    /\ []((InProject /\ Populated(entry) /\ Materialized(entry)) =>
             (Snapshot(cur) = entry /\ calls = {}))
    /\ [][ResumesBeforeXref =>
             /\ "clone" \notin calls' /\ "gitlog" \notin calls'
             /\ mirror'[cur] = mirror[cur] /\ gitlog'[cur] = gitlog[cur]
             /\ (pc = "CROSS_REFERENCE" /\ pc' # "killed") =>
                    /\ Len(trail') = 4
                    /\ trail'[4].how \in {"ran", "failed"}]_vars

\* The re-run of B after such a kill skipped the clone and the log
\* collection and ran the matcher, after project A, with a ledger row and its
\* artifacts in place, had gone through untouched.
C16_Witness ==
    /\ pc = "MATERIALIZE_ARTIFACTS" /\ cur = "B"
    /\ ResumesBeforeXref
    /\ trail[1].how = "skipped" /\ trail[3].how = "skipped" /\ trail[4].how = "ran"
    /\ calls = {"matcher"}
    /\ result["A"] = "ok"
    /\ Len(DataRows(ledger["A"])) >= 1
    /\ Populated(Snapshot("A")) /\ Materialized(Snapshot("A"))

\* MATERIALIZE_ARTIFACTS is at a row of the ledger.
AtRow == pc = "MATERIALIZE_ARTIFACTS" /\ row >= 1 /\ row <= Len(DataRows(ledger[cur]))

\* The step from a row makes no call of the kind that the project's call had
\* not made before it.
NoNewCall(kind) == kind \in calls' => kind \in calls

\* C17: when MATERIALIZE_ARTIFACTS reaches a row whose report, timeline or
\* patch file already exists, the step for that row makes no download of that
\* report or timeline and no diff for that patch, and the file stays as it is.
C17_CreatedOnce ==
    [][AtRow =>
         LET bug_id == DataRows(ledger[cur])[row].vid
         IN  /\ bug_id \in reports[cur] =>
                    (bug_id \in reports'[cur] /\ NoNewCall("report"))
             /\ bug_id \in timelines[cur] =>
                    (bug_id \in timelines'[cur] /\ NoNewCall("timeline"))
             /\ bug_id \in patches[cur] =>
                    (bug_id \in patches'[cur] /\ NoNewCall("diff"))]_vars

\* A call of process_project that found reports and patches of an earlier
\* run went over every row without a download or a diff.
C17_Witness ==
    /\ pc = "returned" /\ Len(trail) = 5 /\ trail[5].how = "ran"
    /\ Len(DataRows(ledger[cur])) >= 1
    /\ \A i \in 1..Len(DataRows(ledger[cur])) :
           /\ DataRows(ledger[cur])[i].vid \in entry.reports
           /\ DataRows(ledger[cur])[i].vid \in entry.patches
    /\ calls \cap {"report", "diff"} = {}
    /\ reports[cur] = entry.reports /\ patches[cur] = entry.patches

\* ------------------------------------------ utils.download_report_data

\* How one session.get(...) / raise_for_status() ends: a response with a
\* success status; a requests ConnectionError; an HTTPError with one of the
\* status codes 502, 503, 504, 520, 524; an HTTPError with another status (a
\* 404); an exception that is no RequestException.
GetOutcomes == {"ok", "connection", "gateway", "notfound", "other"}
RequestExceptions == {"connection", "gateway", "notfound"}

\* The failures the two messages of lines 103 to 106 call transient.
Transient == {"connection", "gateway"}

\* How open(save_to, 'w') and f.write(response_text) end: the whole text is
\* written; open fails; the write fails with part of the text on disk.
WriteOutcomes == {"full", "openfail", "partial"}

\* `word in text`, for the texts of the model and the words the code looks
\* for in them (utils.py 43 to 83, fast_bug_miner.py 201 to 224).
WordsIn(text) ==
    CASE text = "https://api.github.com/repos/o/r/issues/1" ->
             {"api.github.com", "github.com/", "/issues/"}
      [] text = "https://api.github.com/repos/o/r/issues/1/timeline" ->
             {"api.github.com", "github.com/", "/issues/", "timeline"}
      [] text = "https://github.com/o/r/issues/1" -> {"github.com/", "/issues/"}
      [] text = "https://ghproxy.example.org/https://api.github.com/repos/o/r/issues/1" ->
             {"api.github.com", "github.com/", "/issues/"}
      [] text = "https://issues.apache.org/jira/browse/LANG-1" ->
             {"jira", "issues.apache.org/jira/"}
      [] text = "https://issues.apache.org/jira/si/jira.issueviews:issue-xml/LANG-1/LANG-1.xml" ->
             {"jira", "issues.apache.org/jira/"}
      [] text = "https://bz.apache.org/bugzilla/show_bug.cgi?id=1" ->
             {"bugzilla", "bz.apache.org/bugzilla", "show_bug.cgi?id="}
      [] text = "https://bz.apache.org/bugzilla/show_bug.cgi?ctype=xml&id=1" ->
             {"bugzilla", "bz.apache.org/bugzilla"}
      [] text = "https://jira.example.org/browse/X-1" ->
             {"jira", "https://jira.example.org"}
      [] text = "https://jira.example.org/si/jira.issueviews:issue-xml/X-1/X-1.xml" ->
             {"jira", "https://jira.example.org"}
      [] text = "https://jira.example.org" -> {"jira", "https://jira.example.org"}
      [] text = "https://tracker.example.org/show_bug.cgi?id=1" -> {"show_bug.cgi?id="}
      [] text = "https://tracker.example.org/bugzilla" -> {"bugzilla"}
      [] OTHER -> {}
In(word, text) == word \in WordsIn(text)

\* A value that an `if` takes as true.
Truthy(x) == x # None /\ x # ""

\* The host a request for the URI goes to.
HostOf(uri) ==
    CASE uri \in {"https://api.github.com/repos/o/r/issues/1",
                  "https://api.github.com/repos/o/r/issues/1/timeline"} -> "api.github.com"
      [] uri = "https://github.com/o/r/issues/1" -> "github.com"
      [] uri = "https://ghproxy.example.org/https://api.github.com/repos/o/r/issues/1" ->
             "ghproxy.example.org"
      [] uri \in {"https://issues.apache.org/jira/browse/LANG-1",
                  "https://issues.apache.org/jira/si/jira.issueviews:issue-xml/LANG-1/LANG-1.xml"} ->
             "issues.apache.org"
      [] uri \in {"https://bz.apache.org/bugzilla/show_bug.cgi?id=1",
                  "https://bz.apache.org/bugzilla/show_bug.cgi?ctype=xml&id=1"} ->
             "bz.apache.org"
      [] OTHER -> "jira.example.org"

\* The URIs a call is made with: reports of the code-hosting API, its web
\* page and its timeline, of the Apache Jira and Bugzilla, of a Jira of
\* one's own, and the API's report fetched through a proxy host.
DownloadUris ==
    {"https://api.github.com/repos/o/r/issues/1",
     "https://api.github.com/repos/o/r/issues/1/timeline",
     "https://github.com/o/r/issues/1",
     "https://issues.apache.org/jira/browse/LANG-1",
     "https://bz.apache.org/bugzilla/show_bug.cgi?id=1",
     "https://jira.example.org/browse/X-1",
     "https://ghproxy.example.org/https://api.github.com/repos/o/r/issues/1"}
DownloadBases == {None, "https://jira.example.org"}
\* GH_TOKEN: not set, set to the empty string, set to a token.
Tokens == {None, "", "ghp_token"}

\* base_jira_url (40 to 45); the base URLs of the model are in lower case.
base_jira_url(uri, tracker_base_url) ==
    IF Truthy(tracker_base_url) /\ In("jira", tracker_base_url) /\ In(tracker_base_url, uri)
    THEN tracker_base_url
    ELSE IF In("issues.apache.org/jira/", uri) THEN "https://issues.apache.org/jira/"
    ELSE None

\* api_uri after lines 47 to 82.
api_uri(uri, tracker_base_url) ==
    IF Truthy(base_jira_url(uri, tracker_base_url))
    THEN IF uri = "https://issues.apache.org/jira/browse/LANG-1"
         THEN "https://issues.apache.org/jira/si/jira.issueviews:issue-xml/LANG-1/LANG-1.xml"
         ELSE "https://jira.example.org/si/jira.issueviews:issue-xml/X-1/X-1.xml"
    ELSE IF In("github.com/", uri) /\ In("/issues/", uri) /\ ~In("api.github.com", uri)
    THEN "https://api.github.com/repos/o/r/issues/1"
    ELSE IF In("bugzilla", uri) /\ In("show_bug.cgi?id=", uri)
    THEN "https://bz.apache.org/bugzilla/show_bug.cgi?ctype=xml&id=1"
    ELSE uri

\* headers after lines 84 and 85.
AuthHeaders(uri, token) ==
    IF In("api.github.com", uri) /\ Truthy(token) THEN {"Authorization"} ELSE {}

InitDownload ==
    /\ OrchInit /\ XrefOff /\ MatcherOff /\ PoolOff /\ ExecOff /\ DispOff /\ RowOff
    /\ ListOff
    /\ duri \in DownloadUris /\ dbase \in DownloadBases /\ dtoken \in Tokens
    /\ dapi = duri /\ dheaders = {} /\ dsent = <<>>
    /\ dpc = "remap" /\ attempt = 0 /\ retry_delay = first_retry_delay
    /\ tried = <<>> /\ slept = <<>> /\ save_to = "absent" /\ dret = "none"

DReturns(value) == dpc' = "returned" /\ dret' = value

\* if os.path.exists(save_to): os.remove(save_to), then return False, inside
\* the outer try: an OSError of os.remove goes to the outer except clause.
RemoveThenFail ==
    IF save_to = "absent"
    THEN DReturns("False") /\ save_to' = save_to
    ELSE \E removed \in BOOLEAN :
            IF removed THEN DReturns("False") /\ save_to' = "absent"
            ELSE dpc' = "handler" /\ dret' = dret /\ save_to' = save_to

\* Lines 40 to 85: the URI is rewritten for the tracker (urlparse may raise)
\* and the token, if there is one, put in the headers.
DRemap ==
    /\ dpc = "remap"
    /\ \E raised \in BOOLEAN :
         IF raised
         THEN dpc' = "handler" /\ UNCHANGED <<dapi, dheaders>>
         ELSE /\ dpc' = "attempt"
              /\ dapi' = api_uri(duri, dbase)
              /\ dheaders' = AuthHeaders(dapi', dtoken)
    /\ UNCHANGED <<attempt, retry_delay, tried, slept, save_to, dret, orchVars,
                   xrefVars, matcherVars, poolVars, execVars, dispVars, rowVars, listVars,
                   duri, dbase, dtoken, dsent>>

\* One iteration of the retry loop up to the sleep (lines 91 to 113).
DGet ==
    /\ dpc = "attempt" /\ attempt < max_app_retries
    /\ \E outcome \in GetOutcomes :
         /\ tried' = Append(tried, outcome)
         /\ dsent' = Append(dsent, [host |-> HostOf(dapi), headers |-> dheaders])
         /\ IF outcome = "ok"
            THEN dpc' = "write" /\ UNCHANGED <<save_to, dret>>
            ELSE IF outcome \in RequestExceptions
            THEN IF attempt + 1 = max_app_retries
                 THEN RemoveThenFail
                 ELSE dpc' = "sleep" /\ UNCHANGED <<save_to, dret>>
            ELSE dpc' = "handler" /\ UNCHANGED <<save_to, dret>>
    /\ UNCHANGED <<attempt, retry_delay, slept, orchVars, xrefVars, matcherVars, poolVars,
                   execVars, dispVars, rowVars, listVars, duri, dbase, dtoken, dapi, dheaders>>

\* time.sleep(retry_delay); retry_delay *= 2; the next iteration.
DSleep ==
    /\ dpc = "sleep"
    /\ slept' = Append(slept, retry_delay)
    /\ retry_delay' = retry_delay * 2
    /\ attempt' = attempt + 1
    /\ dpc' = "attempt"
    /\ UNCHANGED <<tried, save_to, dret, orchVars, xrefVars, matcherVars, poolVars, execVars, dispVars, rowVars, listVars, authVars>>

\* Lines 122 to 130: the response text is written and True is returned.
DWrite ==
    /\ dpc = "write"
    /\ \E w \in WriteOutcomes :
         IF w = "full" THEN save_to' = "full" /\ DReturns("True")
         ELSE IF w = "openfail" THEN save_to' = save_to /\ dpc' = "handler" /\ dret' = dret
         ELSE save_to' = "partial" /\ dpc' = "handler" /\ dret' = dret
    /\ UNCHANGED <<attempt, retry_delay, tried, slept, orchVars, xrefVars, matcherVars, poolVars, execVars, dispVars, rowVars, listVars, authVars>>

\* Lines 132 to 137, the outer except clause: the file is removed if it
\* exists and False is returned; an OSError of this os.remove leaves the call.
DHandler ==
    /\ dpc = "handler"
    /\ IF save_to = "absent"
       THEN DReturns("False") /\ save_to' = save_to
       ELSE \E removed \in BOOLEAN :
               IF removed THEN DReturns("False") /\ save_to' = "absent"
               ELSE DReturns("raised") /\ save_to' = save_to
    /\ UNCHANGED <<attempt, retry_delay, tried, slept, orchVars, xrefVars, matcherVars, poolVars, execVars, dispVars, rowVars, listVars, authVars>>

NextDownload ==
    \/ DRemap
    \/ DGet
    \/ DSleep
    \/ DWrite
    \/ DHandler

SpecDownload == InitDownload /\ [][NextDownload]_vars

IsPrefix(s, t) == Len(s) <= Len(t) /\ \A i \in 1..Len(s) : s[i] = t[i]

\* C18: a download makes at most 4 HTTP attempts; every attempt that was
\* followed by another one had ended in a transient failure (a connection
\* error or one of the listed server-error status codes); the waits between
\* successive attempts are 15, 30 and 60 seconds; and the call ends: after the
\* fourth attempt there is no further wait or attempt.
C18_BoundedTransientRetry ==
    /\ Len(tried) <= 4
    /\ \A i \in 1..(Len(tried) - 1) : tried[i] \in Transient
    /\ dpc = "sleep" => tried[Len(tried)] \in Transient
    /\ IsPrefix(slept, <<15, 30, 60>>)
    /\ Len(tried) >= 1 => Len(slept) \in {Len(tried) - 1, Len(tried)}
    /\ Len(tried) = 4 => dpc \in {"write", "handler", "returned"}

\* C19: after download_report_data has returned failure the target file does
\* not exist; it has returned success only with the complete response body in
\* the target file; and no exception leaves it.
C19_FailureLeavesNoFile ==
    /\ dret = "False" => save_to = "absent"
    /\ dret = "True" => save_to = "full"
    /\ dret # "raised"

\* The exit code of the orchestrator process once main has ended: sys.exit(1)
\* in the except clause of main, 0 after "All projects processed.".
ExitCode == IF pc = "aborted" THEN 1 ELSE 0

\* C20: the batch file being there (as it is in every run here), the
\* orchestrator's exit code is 0 however the processing of its projects ended.
C20_ExitZeroWithBatchFile ==
    pc \in {"done", "aborted"} => ExitCode = 0

\* ------------------------------------------------- claims C21 to C30

\* C21: when the matcher is run without its API key the whole run is aborted:
\* the orchestrator does not go on past CROSS_REFERENCE, and process_project
\* does not return success for the project with its header-only ledger.
C21_AbortsWithoutCredential ==
    /\ "no_api_key" \in calls => pc = "aborted"
    /\ ~(/\ pc = "returned" /\ success
         /\ "no_api_key" \in calls /\ DataRows(ledger[cur]) = <<>>)

\* C22: a report or timeline download that failed after its last retry fails
\* the stage: when process_project returns success, every row of the ledger
\* with a report URL has its report file, and its timeline file where the
\* report names a timeline.
C22_DownloadFailureFailsProject ==
    (pc = "returned" /\ success) =>
        \A i \in 1..Len(DataRows(ledger[cur])) :
            LET r == DataRows(ledger[cur])[i]
            IN  (r.issue_url # "" /\ r.issue_url # "NA") =>
                    /\ r.vid \in reports[cur]
                    /\ HasTimelineUrl(r) => r.vid \in timelines[cur]

\* The ledger has no header row, or one without the expected columns.
MalformedHeader(f) == f.exists /\ ~(Len(f.lines) > 0 /\ f.lines[1] = HEADER)

\* C23: a data-integrity error does not fail the project: when
\* MATERIALIZE_ARTIFACTS was reached with a ledger whose header row is
\* malformed or lacks an expected column, process_project still returns
\* success (and the project is not rolled back).
C23_BadHeaderSkipsOnly ==
    (pc = "returned" /\ Len(trail) = 5 /\ MalformedHeader(ledger[cur])) => success

\* The futures of Pass 2: one adjudication call is submitted per entry.
Submitted == DOMAIN xdone

\* C24: in a run that submits adjudication calls, a commit whose message
\* mentions no number that is a key of the issue index is not submitted; the
\* number of calls is the number of commits of the log with a non-empty set of
\* relevant ids; and each such commit is submitted once, with that set.
C24_PreFilter ==
    LET log == GitLogOf(XrefProject)
        Relevant(k) == log[k].mentioned \cap xknown
    IN  xdone # <<>> =>
            /\ Submitted = 1..Len(xtasks)
            /\ Cardinality(Submitted) =
                   Cardinality({k \in 1..Len(log) : Relevant(k) # {}})
            /\ \A i \in Submitted :
                   \E k \in 1..Len(log) :
                       /\ log[k].c = xtasks[i].c
                       /\ xtasks[i].relevant = Relevant(k)
                       /\ Relevant(k) # {}
            /\ \A i, j \in Submitted : i # j => xtasks[i].c # xtasks[j].c

\* A run submitted two of the log's three commits and collected both.
C24_Witness ==
    /\ xpc = "pass2"
    /\ Len(GitLogOf(XrefProject)) = 3 /\ Cardinality(Submitted) = 2
    /\ \A i \in Submitted : xdone[i].done
    /\ \E k \in 1..Len(GitLogOf(XrefProject)) :
           /\ GitLogOf(XrefProject)[k].mentioned # {}
           /\ GitLogOf(XrefProject)[k].mentioned \cap xknown = {}

\* The rows the write appended, in file order.
Appended == [k \in 1..(Len(DataRows(xfile')) - Len(DataRows(xfile))) |->
                DataRows(xfile')[Len(DataRows(xfile)) + k]]

\* The rows of a sequence that have the given fixed revision, in order.
RowsOfCommit(rows, c) ==
    LET IsOfCommit(r) == r.fixed = c
    IN  SelectSeq(rows, IsOfCommit)

\* C25: whatever the order in which the futures completed, the rows a run
\* appends for one fixing commit are next to each other, and they are that
\* commit's own: one row per fixed id its adjudication returned, in that
\* order, each with the parent git reported for that commit; no appended row
\* belongs to a commit that was not submitted.
C25_NoInterleaving ==
    [][WriteStep =>
          /\ \A a, b, c \in 1..Len(Appended) :
                 (a < b /\ b < c /\ Appended[a].fixed = Appended[c].fixed) =>
                     Appended[b].fixed = Appended[a].fixed
          /\ \A k \in 1..Len(Appended) :
                 \E i \in 1..Len(xtasks) : xtasks[i].c = Appended[k].fixed
          /\ \A i \in 1..Len(xtasks) :
                 LET own == RowsOfCommit(Appended, xtasks[i].c)
                     parent == get_git_parent(xdone[i].gitout)
                 IN  IF Len(xdone[i].fixed) > 0 /\ parent # None
                     THEN /\ Len(own) = Len(xdone[i].fixed)
                          /\ \A k \in 1..Len(own) :
                                 /\ own[k].issue_id = xdone[i].fixed[k]
                                 /\ own[k].buggy = parent
                     ELSE own = <<>>]_vars

\* A run wrote two rows for one commit and a row for another commit, the
\* futures having completed against the order of submission.
C25_Witness ==
    /\ Written
    /\ \E i, j \in 1..Len(xtasks) :
          /\ i # j
          /\ Len(RowsOfCommit(DataRows(xfile), xtasks[i].c)) >= 2
          /\ Len(RowsOfCommit(DataRows(xfile), xtasks[j].c)) >= 1
    /\ Len(results_to_write) >= 3
    /\ results_to_write[1].c = xtasks[Len(xtasks)].c

\* ------------------------------- llm_xref.main, Pass 2: the worker pool

MAX_WORKERS == 5

\* A mutant: the pool starts a thread for every task it is given.
WorkerFreeAlways(running) == TRUE

\* ThreadPoolExecutor(max_workers=MAX_WORKERS): a queued call is started only
\* while fewer than MAX_WORKERS calls are running.
WorkerFree(running) == running < MAX_WORKERS

InFlight == Cardinality({i \in DOMAIN pool : pool[i] = "running"})
AllSubmitted == \A i \in DOMAIN pool : pool[i] # "unsubmitted"

\* Pass 2 starts with the tasks of Pass 1, none submitted yet.
InitPool ==
    /\ OrchInit /\ XrefOff /\ MatcherOff /\ DownloadOff /\ ExecOff /\ YsOff
    /\ ppc = "pass2"
    /\ \E n \in 1..MaxPoolTasks :
          /\ pool = [i \in 1..n |-> "unsubmitted"]
          /\ pcollected = [i \in 1..n |-> 0]

\* executor.submit(get_fixed_bug_ids, ...) for the next task of the list.
PSubmit(i) ==
    /\ ppc = "pass2" /\ pool[i] = "unsubmitted"
    /\ \A j \in 1..(i - 1) : pool[j] # "unsubmitted"
    /\ pool' = [pool EXCEPT ![i] = "queued"]
    /\ UNCHANGED <<ppc, pcollected, orchVars, xrefVars, matcherVars, dlVars, execVars, ys>>

\* A worker thread takes the oldest queued call and starts it.
PTake(i) ==
    /\ ppc = "pass2" /\ pool[i] = "queued"
    /\ \A j \in 1..(i - 1) : pool[j] # "queued"
    /\ WorkerFree(InFlight)
    /\ pool' = [pool EXCEPT ![i] = "running"]
    /\ UNCHANGED <<ppc, pcollected, orchVars, xrefVars, matcherVars, dlVars, execVars, ys>>

\* get_fixed_bug_ids returns in its worker (it raises nothing).
PReturn(i) ==
    /\ ppc = "pass2" /\ pool[i] = "running"
    /\ pool' = [pool EXCEPT ![i] = "finished"]
    /\ UNCHANGED <<ppc, pcollected, orchVars, xrefVars, matcherVars, dlVars, execVars, ys>>

\* One iteration of the as_completed loop, entered once every task has been
\* submitted: a finished future not yet yielded is yielded and its result
\* read; the parent lookup for it may time out, which ends the process.
PCollect(i) ==
    /\ ppc = "pass2" /\ AllSubmitted
    /\ pool[i] = "finished" /\ pcollected[i] = 0
    /\ pcollected' = [pcollected EXCEPT ![i] = @ + 1]
    /\ \E timeout \in BOOLEAN : ppc' = IF timeout THEN "exited" ELSE "pass2"
    /\ UNCHANGED <<pool, orchVars, xrefVars, matcherVars, dlVars, execVars, ys>>

\* as_completed is exhausted: Pass 3 begins.
PWrite ==
    /\ ppc = "pass2" /\ AllSubmitted
    /\ \A i \in DOMAIN pool : pool[i] = "finished" /\ pcollected[i] > 0
    /\ ppc' = "write"
    /\ UNCHANGED <<pool, pcollected, orchVars, xrefVars, matcherVars, dlVars, execVars, ys>>

NextPool ==
    \/ \E i \in DOMAIN pool : PSubmit(i)
    \/ \E i \in DOMAIN pool : PTake(i)
    \/ \E i \in DOMAIN pool : PReturn(i)
    \/ \E i \in DOMAIN pool : PCollect(i)
    \/ PWrite

SpecPool == InitPool /\ [][NextPool]_vars

\* C26: at most 5 adjudication calls are in flight at any time; no result is
\* collected twice; and when the ledger write begins every submitted call's
\* result has been collected, once.
C26_BoundedPool ==
    /\ [](InFlight <= 5)
    /\ [](\A i \in DOMAIN pool : pcollected[i] <= 1)
    /\ [](ppc = "write" =>
             \A i \in DOMAIN pool : pool[i] # "unsubmitted" /\ pcollected[i] = 1)

\* Five calls are in flight while a sixth waits in the queue and the result
\* of a seventh has been collected.
C26_Witness ==
    /\ ppc = "pass2" /\ InFlight = 5
    /\ \E i \in DOMAIN pool : pool[i] = "queued"
    /\ \E i \in DOMAIN pool : pcollected[i] = 1

\* C27: a run appends a row for a commit only if that commit's adjudication
\* returned a non-empty list of fixed ids and git reported its one parent;
\* the ledger file is left as it is by every step of the run before the write,
\* and the write happens with every adjudication of the run completed.
C27_WriteInFinalPass ==
    /\ [][WriteStep =>
             /\ \A i \in 1..Len(xtasks) : xdone[i].done
             /\ \A k \in 1..Len(Appended) :
                    \E i \in 1..Len(xtasks) :
                        /\ xtasks[i].c = Appended[k].fixed
                        /\ xdone[i].done /\ Len(xdone[i].fixed) > 0
                        /\ get_git_parent(xdone[i].gitout) # None]_vars
    /\ [][(xpc = "pass2" /\ ~WriteStep) => xfile' = xfile]_vars
    /\ [][(xpc = "pass2" /\ \E i \in 1..Len(xtasks) : ~xdone[i].done) => xfile' = xfile]_vars

\* A run with two tasks wrote the rows of one of them; the other's
\* adjudication had come back empty.
C27_Witness ==
    /\ Written /\ Len(xtasks) = 2
    /\ \E i, j \in 1..Len(xtasks) :
          /\ Len(xdone[i].fixed) > 0 /\ get_git_parent(xdone[i].gitout) # None
          /\ Len(xdone[j].fixed) = 0
          /\ RowsOfCommit(DataRows(xfile), xtasks[i].c) # <<>>
          /\ RowsOfCommit(DataRows(xfile), xtasks[j].c) = <<>>

\* ------------------------------------------------------ utils.exec_cmd

\* How subprocess.run ends: exit code 0, another exit code, TimeoutExpired,
\* or an OSError (the executable is missing, the process cannot be started).
RunOutcomes == {"exit0", "nonzero", "timeout", "oserror"}

InitExec ==
    /\ OrchInit /\ XrefOff /\ MatcherOff /\ DownloadOff /\ PoolOff /\ YsOff
    /\ epc = "open" /\ ehas \in BOOLEAN /\ efile = "absent" /\ eruns = 0
    /\ elog = <<>>

EReturns(outcome, ret, left) ==
    /\ epc' = "returned"
    /\ efile' = left
    /\ elog' = Append(elog, [has |-> ehas, outcome |-> outcome, ret |-> ret,
                             file |-> left, runs |-> eruns'])

\* if output_file: stdout_handle = open(output_file, 'w'); an IOError of the
\* open returns False before the command is started.
EOpen ==
    /\ epc = "open"
    /\ IF ehas
       THEN \E opened \in BOOLEAN :
               IF opened
               THEN epc' = "run" /\ efile' = "empty" /\ elog' = elog /\ eruns' = eruns
               ELSE eruns' = eruns /\ EReturns("openfail", FALSE, efile)
       ELSE epc' = "run" /\ UNCHANGED <<efile, elog, eruns>>
    /\ UNCHANGED <<ehas, orchVars, xrefVars, matcherVars, dlVars, poolVars, ys>>

\* os.remove(output_file) under 'except OSError: pass': what is left.
AfterRemove(file) == {"absent", file}

\* subprocess.run and what follows it.
ERun ==
    /\ epc = "run"
    /\ eruns' = eruns + 1
    /\ \E outcome \in RunOutcomes :
         IF outcome = "exit0"
         THEN EReturns(outcome, TRUE, IF ehas THEN "full" ELSE efile)
         ELSE IF ~ehas
         THEN EReturns(outcome, FALSE, efile)
         ELSE IF outcome = "oserror"
         THEN EReturns(outcome, FALSE, efile)
         ELSE \E written \in {"empty", "partial"} :
                 \E left \in AfterRemove(written) : EReturns(outcome, FALSE, left)
    /\ UNCHANGED <<ehas, orchVars, xrefVars, matcherVars, dlVars, poolVars, ys>>

\* The caller makes its next call of exec_cmd, for another output file.
ECallAgain ==
    /\ epc = "returned" /\ Len(elog) < MaxExecCalls
    /\ epc' = "open" /\ efile' = "absent" /\ eruns' = 0
    /\ ehas' \in BOOLEAN
    /\ UNCHANGED <<elog, orchVars, xrefVars, matcherVars, dlVars, poolVars, ys>>

NextExec ==
    \/ EOpen
    \/ ERun
    \/ ECallAgain

SpecExec == InitExec /\ [][NextExec]_vars

\* C28: a call of exec_cmd starts its command once and never again; when the
\* command exits non-zero, times out or raises, exec_cmd returns failure and
\* the output file, if one was given, does not exist afterwards; when it exits
\* zero, exec_cmd returns success and the output file is kept.
C28_ExecOnceAndClean ==
    /\ eruns <= 1
    /\ \A k \in 1..Len(elog) :
          LET e == elog[k]
          IN  /\ e.runs <= 1
              /\ e.outcome \in {"nonzero", "timeout", "oserror"} =>
                     (e.runs = 1 /\ ~e.ret /\ (e.has => e.file = "absent"))
              /\ e.outcome = "exit0" =>
                     (e.runs = 1 /\ e.ret /\ (e.has => e.file = "full"))

\* ------------------------------------ claims about MATERIALIZE_ARTIFACTS

\* The step from a row goes to the row after it.
VisitsNext == pc' = "MATERIALIZE_ARTIFACTS" /\ row' = row + 1

\* C29: MATERIALIZE_ARTIFACTS visits every row of the ledger, whichever run
\* wrote it: at a row with both hashes and no patch file a diff is made, at a
\* row with a report URL and no report file a download is made, and whatever
\* happens at a row the loop goes on to the row after it, so that the stage
\* is left only past the last row.
C29_VisitsEveryRow ==
    [][AtRow =>
         LET r == DataRows(ledger[cur])[row]
         IN  /\ (r.buggy # "" /\ r.fixed # "" /\ r.vid \notin patches[cur]) =>
                    "diff" \in calls'
             /\ (r.issue_url # "" /\ r.issue_url # "NA" /\ r.vid \notin reports[cur]) =>
                    "report" \in calls'
             /\ VisitsNext]_vars

\* The row the loop is at has both hashes and no patch file: git diff is run.
PatchDue ==
    LET r == DataRows(ledger[cur])[row]
    IN  r.buggy # "" /\ r.fixed # "" /\ r.vid \notin patches[cur]

\* C30: when the patch generation at a row fails (the loop does not go on
\* from the row with the patch written), no patch file exists for that row's
\* entry afterwards, so that a later run finds the patch missing and runs
\* the diff again.
C30_FailedDiffLeavesNoPatch ==
    [][(AtRow /\ PatchDue /\ ~VisitsNext) =>
          DataRows(ledger[cur])[row].vid \notin patches'[cur]]_vars

\* ------------------------------- process_project, stage 3d on its own

\* issue_tracker_name as the batch file gives it (download_issues.py knows
\* google, jira, github and bugzilla), and bug_fix_regex.
TrackerNames == {"github", "jira", "bugzilla", "google"}
Regexes == {"/(LANG-\\d+)/mi", "/fix/i"}

\* The paths process_project derives from its arguments (38 to 49).
cache_gitlog_file(project_id) ==
    IF project_id = "A" THEN "cache/A/gitlog.txt" ELSE "cache/B/gitlog.txt"
cache_repo_dir(project_id) ==
    IF project_id = "A" THEN "cache/A/name.git" ELSE "cache/B/name.git"
output_csv_file(project_id) ==
    IF project_id = "A" THEN "output/A/active-bugs.csv" ELSE "output/B/active-bugs.csv"
cache_issues_file(issue_tracker_name) ==
    CASE issue_tracker_name = "github" -> "shared_issues/github_o/r/issues.txt"
      [] issue_tracker_name = "jira" -> "shared_issues/jira_o/r/issues.txt"
      [] issue_tracker_name = "bugzilla" -> "shared_issues/bugzilla_o/r/issues.txt"
      [] OTHER -> "shared_issues/google_o/r/issues.txt"
repository_url(project_id) ==
    IF project_id = "A" THEN "https://github.com/o/A" ELSE "https://github.com/o/B"

\* A mutant: every tracker gets the model-assisted matcher.
cmd_xref_list_llm_only(issue_tracker_name, bug_fix_regex, project_id) ==
    <<"llm_xref.py",
      "-l", cache_gitlog_file(project_id), "-r", cache_repo_dir(project_id),
      "-i", cache_issues_file(issue_tracker_name), "-f", output_csv_file(project_id),
      "-ru", repository_url(project_id), "-pid", project_id>>

\* cmd_xref_list (130 to 158), without the interpreter: the script and its
\* arguments.
cmd_xref_list(issue_tracker_name, bug_fix_regex, project_id) ==
    IF issue_tracker_name = "github"
    THEN <<"llm_xref.py",
           "-l", cache_gitlog_file(project_id), "-r", cache_repo_dir(project_id),
           "-i", cache_issues_file(issue_tracker_name), "-f", output_csv_file(project_id),
           "-ru", repository_url(project_id), "-pid", project_id>>
    ELSE <<"vcs_log_xref.py", "-e", bug_fix_regex,
           "-l", cache_gitlog_file(project_id), "-r", cache_repo_dir(project_id),
           "-i", cache_issues_file(issue_tracker_name), "-f", output_csv_file(project_id),
           "-ru", repository_url(project_id), "-pid", project_id>>

\* The argument a command list gives after `flag`, None without the flag.
Arg(cmd, flag) ==
    IF \E i \in 1..(Len(cmd) - 1) : cmd[i] = flag
    THEN cmd[(CHOOSE i \in 1..(Len(cmd) - 1) : cmd[i] = flag) + 1]
    ELSE None

InitDispatch ==
    /\ OrchInit /\ XrefOff /\ MatcherOff /\ DownloadOff /\ PoolOff /\ ExecOff
    /\ RowOff /\ AuthOff /\ ListOff
    /\ cpc = "stage" /\ cpid \in Projects /\ ctracker \in TrackerNames
    /\ cregex \in Regexes /\ cexists \in BOOLEAN
    /\ ccmds = <<>> /\ clog = <<>>

\* What the stage came to, for the log.
CReturns(header, cmds, how) ==
    /\ cpc' = "returned"
    /\ ccmds' = cmds
    /\ clog' = Append(clog, [pid |-> cpid, tracker |-> ctracker, regex |-> cregex,
                             existed |-> cexists, header |-> header, cmds |-> cmds,
                             how |-> how])

\* 3d (121 to 165): with the ledger file there, nothing; else the header row
\* is written (an IOError returns False), the command list is built for the
\* tracker and given to exec_cmd once.
CStage ==
    /\ cpc = "stage"
    /\ IF cexists
       THEN CReturns(FALSE, <<>>, "skipped") /\ cexists' = cexists
       ELSE \E headerWritten \in BOOLEAN :
            IF MatcherInvoked(headerWritten)
            THEN \E out \in ExecOutcomes :
                    /\ CReturns(TRUE, <<cmd_xref_list(ctracker, cregex, cpid)>>,
                                IF exec_cmd(out) THEN "ran" ELSE "failed")
                    /\ cexists' = TRUE
            ELSE /\ CReturns(FALSE, <<>>, "failed")
                 /\ cexists' \in BOOLEAN
    /\ UNCHANGED <<cpid, ctracker, cregex, orchVars, zs, rowVars>>

\* process_project is called for another line of the batch file.
CNextProject ==
    /\ cpc = "returned" /\ Len(clog) < MaxDispatch
    /\ cpc' = "stage" /\ ccmds' = <<>>
    /\ cpid' \in Projects /\ ctracker' \in TrackerNames /\ cregex' \in Regexes
    /\ cexists' \in BOOLEAN
    /\ UNCHANGED <<clog, orchVars, zs, rowVars>>

NextDispatch ==
    \/ CStage
    \/ CNextProject

SpecDispatch == InitDispatch /\ [][NextDispatch]_vars

\* The matcher a logged stage ran is the one for its tracker, with the
\* project's own files.
RightMatcher(e) ==
    LET cmd == e.cmds[1]
    IN  /\ (cmd[1] = "llm_xref.py") <=> (e.tracker = "github")
        /\ (cmd[1] = "vcs_log_xref.py") <=> (e.tracker # "github")
        /\ Arg(cmd, "-e") = (IF e.tracker = "github" THEN None ELSE e.regex)
        /\ Arg(cmd, "-l") = cache_gitlog_file(e.pid)
        /\ Arg(cmd, "-r") = cache_repo_dir(e.pid)
        /\ Arg(cmd, "-i") = cache_issues_file(e.tracker)
        /\ Arg(cmd, "-f") = output_csv_file(e.pid)

\* C31 as claimed: every CROSS_REFERENCE stage that is executed (the ledger
\* file was not there) invokes exactly one matcher, the model-assisted one
\* iff the tracker is github and the pattern-based one with the project's
\* pattern otherwise, both with the same log, mirror, index and ledger paths.
C31_OneMatcherByTracker ==
    \A k \in 1..Len(clog) :
        ~clog[k].existed => (Len(clog[k].cmds) = 1 /\ RightMatcher(clog[k]))

\* C31 amended: a stage never invokes more than one matcher; it invokes one
\* iff the ledger file was not there and the header row could be written,
\* and that one is chosen by the tracker alone as claimed.
C31_OneMatcherByTrackerAfterHeader ==
    \A k \in 1..Len(clog) :
        /\ Len(clog[k].cmds) <= 1
        /\ (Len(clog[k].cmds) = 1) <=> (~clog[k].existed /\ clog[k].header)
        /\ Len(clog[k].cmds) = 1 => RightMatcher(clog[k])

\* Two stages of one project's files, one under a github tracker and one
\* under jira, each ran its matcher.
C31_Witness ==
    /\ Len(clog) = 2
    /\ clog[1].tracker = "github" /\ clog[2].tracker = "jira"
    /\ clog[1].pid = clog[2].pid
    /\ Len(clog[1].cmds) = 1 /\ Len(clog[2].cmds) = 1

\* ------------------------------------------ claims C32 and following

\* C32: once the shared issue index of a tracker key is a non-empty file, no
\* step of any project or run sharing the key runs the issue download, and
\* no step changes or removes the file: it is written once, then only read.
C32_IndexWrittenOnce ==
    [][\A k \in Keys :
          index[k] \in {"partial", "complete"} =>
              /\ index'[k] = index[k]
              /\ NoNewCall("download_issues")]_vars

\* The first project downloaded the index and failed later, its output was
\* removed, and the second project, sharing the key, has found the index
\* cached and skipped the download.
C32_Witness ==
    /\ pc = "COLLECT_LOG" /\ line = 2
    /\ result["A"] = "failed" /\ ~outdir["A"]
    /\ index[KeyOf("B")] = "complete"
    /\ Len(trail) = 2 /\ trail[2].how = "skipped"
    /\ "download_issues" \notin calls

\* C33: the first row a run appends gets the last existing row's vid plus
\* one; it gets 1 only when the ledger file is absent or holds no data row,
\* and never when the ledger holds a data row.
C33_NextVid ==
    [][(WriteStep /\ Len(Appended) > 0) =>
          LET old == DataRows(xfile)
              first == VidOf(Appended[1])
          IN  /\ Len(old) > 0 => (first = VidOf(old[Len(old)]) + 1 /\ first # 1)
              /\ first = 1 => (~xfile.exists \/ Len(old) = 0)
              /\ Len(old) = 0 => first = 1]_vars

\* A second run has appended one row, with vid 3, to a ledger that held the
\* two rows of the first run.
C33_Witness ==
    /\ Written /\ xruns = 2
    /\ Len(results_to_write) = 1
    /\ Len(DataRows(xfile)) = 3
    /\ VidOf(DataRows(xfile)[2]) = 2 /\ VidOf(DataRows(xfile)[3]) = 3

\* ------------------- process_project, steps 4a and 4a.1 for one ledger row

\* report.url cells: none, NA, the code-hosting API, the code-hosting web
\* page, the Apache Jira, the Apache Bugzilla, and trackers of one's own.
ReportUrls ==
    {"", "NA",
     "https://api.github.com/repos/o/r/issues/1",
     "https://github.com/o/r/issues/1",
     "https://issues.apache.org/jira/browse/LANG-1",
     "https://bz.apache.org/bugzilla/show_bug.cgi?id=1",
     "https://jira.example.org/browse/X-1",
     "https://tracker.example.org/show_bug.cgi?id=1"}
TrackerBaseUrls ==
    {None, "https://jira.example.org", "https://tracker.example.org/bugzilla"}

\* ext (196 to 203); `and` binds tighter than `or` in the second operand.
ext(report_url, tracker_base_url) ==
    IF \/ /\ In("jira", report_url)
          /\ \/ In(".atlassian.net", report_url)
             \/ In("issues.apache.org/jira/", report_url)
             \/ (Truthy(tracker_base_url) /\ In("jira", tracker_base_url))
       \/ (In("bugzilla", report_url) /\ In("bz.apache.org/bugzilla", report_url))
       \/ (Truthy(tracker_base_url) /\ In("bugzilla", tracker_base_url))
    THEN ".xml" ELSE ".json"

\* What a report file may hold: an API issue object with its timeline_url,
\* one without the key, one with an empty value, an object whose url is not
\* the API's, text that is not JSON (a cut-off download, XML), a JSON list.
ReportContents ==
    {"api_timeline", "api_no_timeline", "api_empty_timeline", "web_timeline",
     "not_json", "json_list"}

\* json.load of the report file.
ReportJson(content) ==
    CASE content = "api_timeline" ->
             [kind |-> "dict", url |-> "https://api.github.com/repos/o/r/issues/1",
              timeline_url |-> "https://api.github.com/repos/o/r/issues/1/timeline"]
      [] content = "api_no_timeline" ->
             [kind |-> "dict", url |-> "https://api.github.com/repos/o/r/issues/1",
              timeline_url |-> None]
      [] content = "api_empty_timeline" ->
             [kind |-> "dict", url |-> "https://api.github.com/repos/o/r/issues/1",
              timeline_url |-> ""]
      [] content = "web_timeline" ->
             [kind |-> "dict", url |-> "https://github.com/o/r/issues/1",
              timeline_url |-> "https://api.github.com/repos/o/r/issues/1/timeline"]
      [] content = "json_list" -> [kind |-> "list", url |-> "", timeline_url |-> None]
      [] OTHER -> [kind |-> "JSONDecodeError", url |-> "", timeline_url |-> None]

\* A mutant: the timeline_url of any report object is taken.
timeline_url_any(content) ==
    IF ReportJson(content).kind = "dict" THEN ReportJson(content).timeline_url ELSE None

\* timeline_url after lines 219 to 231: data.get on a list raises, which
\* `except Exception` takes like text that is not JSON.
timeline_url(content) ==
    LET data == ReportJson(content)
    IN  IF data.kind = "dict" /\ In("api.github.com", data.url)
        THEN data.timeline_url
        ELSE None

InitRow ==
    /\ OrchInit /\ XrefOff /\ MatcherOff /\ DownloadOff /\ PoolOff /\ ExecOff
    /\ DispOff /\ AuthOff /\ ListOff
    /\ tpc = "report" /\ turl \in ReportUrls /\ tbase \in TrackerBaseUrls
    /\ treport \in {"absent"} \cup ReportContents
    /\ ttimeline \in BOOLEAN /\ tcalls = <<>>

\* 4a (194 to 211): the report is downloaded when the row has a URL and the
\* report file is not there; what download_report_data returns is not read.
RReport ==
    /\ tpc = "report"
    /\ IF Truthy(turl) /\ turl # "NA" /\ treport = "absent"
       THEN /\ tcalls' = Append(tcalls, "report")
            /\ \E got \in Got(TRUE) :
                  treport' \in (IF got THEN ReportContents ELSE {"absent", "not_json"})
       ELSE UNCHANGED <<treport, tcalls>>
    /\ tpc' = "timeline"
    /\ UNCHANGED <<turl, tbase, ttimeline, orchVars, zs, dispVars>>

\* 4a.1 (213 to 236).
RTimeline ==
    /\ tpc = "timeline"
    /\ IF /\ ext(turl, tbase) = ".json"
          /\ Truthy(turl) /\ turl # "NA"
          /\ treport # "absent"
          /\ ~ttimeline
          /\ Truthy(timeline_url(treport))
       THEN /\ tcalls' = Append(tcalls, "timeline")
            /\ ttimeline' \in Got(TRUE)
       ELSE UNCHANGED <<ttimeline, tcalls>>
    /\ tpc' = "done"
    /\ UNCHANGED <<turl, tbase, treport, orchVars, zs, dispVars>>

\* The loop takes the next row; its files are as earlier runs left them.
RNextRow ==
    /\ tpc = "done"
    /\ tpc' = "report" /\ tcalls' = <<>>
    /\ turl' \in ReportUrls
    /\ treport' \in {"absent"} \cup ReportContents
    /\ ttimeline' \in BOOLEAN
    /\ UNCHANGED <<tbase, orchVars, zs, dispVars>>

NextRow ==
    \/ RReport
    \/ RTimeline
    \/ RNextRow

SpecRow == InitRow /\ [][NextRow]_vars

\* The step downloads a timeline.
TimelineDownloaded == tcalls' = Append(tcalls, "timeline")

\* C34: step 4a.1 downloads a timeline for a row only if the row's report
\* file exists, the report is a JSON report (by its file type and by what it
\* holds), its url field is of the code-hosting API, it carries a timeline
\* URL, and the row has no timeline file yet; and it does so then.  No other
\* step downloads a timeline.
C34_TimelineOnlyForApiReports ==
    [][/\ tpc = "timeline" =>
            (TimelineDownloaded <=>
                /\ treport # "absent"
                /\ ext(turl, tbase) = ".json"
                /\ ReportJson(treport).kind = "dict"
                /\ In("api.github.com", ReportJson(treport).url)
                /\ Truthy(ReportJson(treport).timeline_url)
                /\ ~ttimeline
                /\ turl \notin {"", "NA"})
       /\ tpc # "timeline" => ~TimelineDownloaded]_vars

\* A row whose report was downloaded in this run and is an API issue object:
\* its timeline was downloaded after it.
C34_Witness ==
    /\ tpc = "done"
    /\ tcalls = <<"report", "timeline">>
    /\ treport = "api_timeline" /\ ttimeline

\* C35: a request carries the Authorization header only when GH_TOKEN holds
\* a token and the request goes to the host of the code-hosting API; no
\* request to another host carries it; without a token the requests are made
\* all the same, without the header.
C35_TokenOnlyToApiHost ==
    /\ \A k \in 1..Len(dsent) :
          "Authorization" \in dsent[k].headers =>
              (Truthy(dtoken) /\ dsent[k].host = "api.github.com")
    /\ (~Truthy(dtoken) /\ dpc \in {"sleep", "write"}) =>
          (Len(dsent) >= 1 /\ \A k \in 1..Len(dsent) : dsent[k].headers = {})

\* C36: when FETCH_ISSUE_INDEX fails (the issue-lister exits non-zero, also
\* part-way through the pages of a listing), no non-empty index file is left
\* for the key, so that the next project or run sharing the key downloads
\* the index again.
C36_FailedFetchLeavesNoIndex ==
    [][(pc = "FETCH_ISSUE_INDEX" /\ pc' = "returned" /\ ~success') =>
          index'[KeyOf(cur)] \in {"absent", "empty"}]_vars

\* C37: when the parsed response is an object whose "fixed_ids" value is the
\* empty list, get_fixed_bug_ids returns the empty list, whatever other keys
\* and lists the object holds and in whatever order; an id listed under
\* another key is never returned as fixed.
C37_EmptyFixedIdsReturnsEmpty ==
    (/\ mpc = "returned"
     /\ mclient
     /\ mresp.kind = "dict"
     /\ HasListAt(mresp.pairs, "fixed_ids")
     /\ Len(ListAt(mresp.pairs, "fixed_ids")) = 0) => Len(mout) = 0


MaxLabels == 2
MaxPages == 2

\* What labels_to_search may hold: label names, a blank one among them.
LabelNames == {"bug", "defect", " "}
LabelLists == {l \in SeqsUpTo(LabelNames, MaxLabels) : Len(l) > 0}

\* label.strip()
strip(label) == IF label = " " THEN "" ELSE label

\* Everything but the enumeration's variables.
ws == <<orchVars, xrefVars, matcherVars, dlVars, authVars, poolVars, execVars, dispVars, rowVars>>

\* The script at line 340: the token, the project id and the labels are
\* settled and issues.txt is as the orchestrator found it.
InitList ==
    /\ OrchInit /\ XrefOff /\ MatcherOff /\ DownloadOff /\ PoolOff /\ ExecOff
    /\ DispOff /\ RowOff /\ AuthOff
    /\ gpc = "clear"
    /\ labels_to_search \in LabelLists
    /\ label_ix = 0 /\ page_count = 0
    /\ issues_file = "stale"
    /\ exit_code = -1

\* sys.exit(code)
GExit(code) ==
    /\ gpc' = "exited"
    /\ exit_code' = code

\* 341-346: issues.txt is emptied; an IOError ends the script with status 1.
GClear ==
    /\ gpc = "clear"
    /\ \E cleared \in BOOLEAN :
         IF cleared
         THEN /\ issues_file' = <<>>
              /\ gpc' = "label" /\ label_ix' = 1
              /\ UNCHANGED exit_code
         ELSE /\ GExit(1)
              /\ UNCHANGED <<issues_file, label_ix>>
    /\ UNCHANGED <<labels_to_search, page_count, ws>>

\* 348-357 and 418-419: the for loop takes the next label, skipping a blank
\* one; after the last label the script exits with status 0.
GNextLabel ==
    /\ gpc = "label"
    /\ IF label_ix > Len(labels_to_search)
       THEN /\ GExit(0)
            /\ UNCHANGED <<label_ix, page_count>>
       ELSE IF strip(labels_to_search[label_ix]) = ""
       THEN /\ label_ix' = label_ix + 1
            /\ UNCHANGED <<gpc, page_count, exit_code>>
       ELSE /\ gpc' = "request"
            /\ page_count' = 1
            /\ UNCHANGED <<label_ix, exit_code>>
    /\ UNCHANGED <<labels_to_search, issues_file, ws>>

\* What one session.post and the handling of its response can come to.
PostOutcomes ==
    {"page_more", "page_last", "page_nothing_new", "errors", "ioerror",
     "request_exception", "interrupt", "uncaught"}

\* The loop is left for the next label (hasNextPage false, or break).
GLeaveLoop ==
    /\ gpc' = "label"
    /\ label_ix' = label_ix + 1
    /\ UNCHANGED <<page_count, exit_code>>

\* 359-416: one pass of `while hasNextPage`.  A page is appended to
\* issues.txt and the loop goes on or ends with hasNextPage; an answer with
\* 'errors' breaks; an IOError on the append, a KeyboardInterrupt or an
\* exception no handler names ends the script with status 1; a
\* RequestException is reported and the loop sleeps to try again.
GRequest ==
    /\ gpc = "request"
    /\ \E outcome \in PostOutcomes :
         CASE outcome = "page_more" ->
                /\ page_count < MaxPages
                /\ issues_file' = Append(issues_file, <<label_ix, page_count>>)
                /\ page_count' = page_count + 1
                /\ UNCHANGED <<gpc, label_ix, exit_code>>
           [] outcome = "page_last" ->
                /\ issues_file' = Append(issues_file, <<label_ix, page_count>>)
                /\ GLeaveLoop
           [] outcome = "page_nothing_new" ->
                /\ GLeaveLoop
                /\ UNCHANGED issues_file
           [] outcome = "errors" ->
                /\ GLeaveLoop
                /\ UNCHANGED issues_file
           [] outcome \in {"ioerror", "interrupt", "uncaught"} ->
                /\ GExit(1)
                /\ UNCHANGED <<issues_file, label_ix, page_count>>
           [] outcome = "request_exception" ->
                /\ gpc' = "retry"
                /\ UNCHANGED <<issues_file, label_ix, page_count, exit_code>>
    /\ UNCHANGED <<labels_to_search, ws>>

\* 411-413 and 359: time.sleep(5) in the handler of RequestException, then the while
\* loop tests hasNextPage, which the failed pass left TRUE, and posts again.
GRetry ==
    /\ gpc = "retry"
    /\ gpc' = "request"
    /\ UNCHANGED <<labels_to_search, label_ix, page_count, issues_file, exit_code, ws>>

NextList ==
    \/ GClear
    \/ GNextLabel
    \/ GRequest
    \/ GRetry

\* The script is a running process: it takes its next step as long as it has
\* one.
SpecList == InitList /\ [][NextList]_vars /\ WF_vars(NextList)

\* C39: the GitHub issue enumeration terminates: for every label the
\* pagination loop ends after a bounded number of requests, also when every
\* request fails, so the script comes to its exit by itself.
C39_EnumerationTerminates == <>(gpc = "exited")

====
